---- MODULE Spec2Model ----
(***************************************************************************)
(* Model of the blob-war tick loop (src/src/main.rs `run`): the request /  *)
(* fulfillment protocol between the region states (BaseState,              *)
(* SetupBaseState) and the global request ledger of BWState.               *)
(*                                                                         *)
(* One tick is the sequence of passes of `run`: StartTick, ReadPass,       *)
(* ApplyRequests, AssignAndHandle, UpdatePass, FinishTick.                 *)
(* The world (visibility, spawns, energy, creeps that exist) is the        *)
(* environment and is drawn nondeterministically at the start of a tick.   *)
(***************************************************************************)
EXTENDS Integers, Sequences, FiniteSets, TLC

\* ------------------------------------------------------------------ bounds
\* number of ticks the loop is run one by one (QuietTicks does not count)
MaxTicks == 2
\* most creeps that die between two ticks
MaxDeaths == 1
\* most ticks that an error ends early
MaxErrors == 1

\* ------------------------------------------------------- program constants
PANIC_THRESHOLD_TICKS == 100

\* ---------------------------------------------------------------- the world
Rooms == {"W1N1", "W2N1"}

\* the order in which room_states (a HashMap) is iterated by the read pass
RoomOrder == <<"W1N1", "W2N1">>

\* the sources that the rooms of the world can have: the home room has one
\* source or two, the remote room has one
SourceMaps == {[r \in Rooms |-> IF r = "W1N1" THEN home ELSE <<"sC">>] :
                  home \in {<<"sA">>, <<"sA", "sB">>}}

\* what the world shows of a room during one tick: a visible room with a
\* spawn of mine, a visible room without one, a room that is not visible
WorldStatus == {"spawn", "nospawn", "hidden"}

\* the rooms as the world can show them in one tick: W1N1 is a home room
\* that can show anything, W2N1 is a remote room under setup that is never
\* visible
Worlds == {w \in [Rooms -> WorldStatus] : w["W2N1"] = "hidden"}

\* what `world` is set to between two ticks, when it is of no account
QuietWorld == [r \in Rooms |-> "hidden"]

\* the room state kinds found in memory when the process is constructed
InitKinds == {k \in [Rooms -> {"Base", "SetupBase"}] : k["W2N1"] = "SetupBase"}

\* Option::None of panic_countdown and of spawning_creep_name
PanicNone == -1
NoName == <<>>
NoSource == "-"

VARIABLES
    found_sources,      \* room -> its sources in the world (they never change)
    memory,             \* room -> what Memory holds of its room state
    args,               \* the function applied on its own, with its arguments
    ret,                \* what that function returned
    supplier_fillers,   \* data.supplier_fillers of the Base room: the creeps filling
    suppliers_to_fill,  \* suppliers_to_fill of the Base room, as last updated
    free_capacity,      \* reach point -> free energy capacity of its suppliers
    carriers,           \* carrier -> where the creep is and the energy it carries
    intents,            \* carrier -> what the creep was told to do this tick
    time,               \* game::time()
    ticksRun,           \* ticks run one by one so far (bounds the model)
    errors,             \* ticks ended early by an error so far (bounds the model)
    pc,                 \* position of `run` inside the tick
    in_tick_unique_id,  \* IN_TICK_UNIQUE_ID
    world,              \* room -> WorldStatus, fixed during a tick
    alive,              \* creeps of game::creeps in this tick
    spawning,           \* creeps whose spawn call returned OK in this tick
    citizens,           \* BWState.citizens
    room_states,        \* BWState.room_states
    requests,           \* BWState.requests (the pending map)
    handled_requests,   \* BWState.handled_requests: tick -> (id -> Request)
    run_returned,       \* room -> the Vec<Request> its run() returned
    room_requests,      \* the local HashMap<RoomName, Request> of `run`
    updated,            \* rooms whose update pass ran in this tick
    room_state_updates, \* the local room_state_updates of `run`
    last_spawn,         \* room -> outcome of this tick's fulfillment attempt
    citizen_tasks,      \* BWState.citizens: creep -> its OokRace (race, job, task)
    local_citizens,     \* the local `citizens` of `run`, which do_job works on
    job_queue,          \* the citizens the do_job loop has still to reach
    jobs_ran,           \* the citizens whose do_job was called in this tick
    job_log             \* what the last do_job saw and what it came to

\* what the do_job loop works on; the passes over the regions leave it alone
taskVars == <<citizen_tasks, local_citizens, job_queue, jobs_ran, job_log>>

\* a function applied on its own and its result
calcVars == <<args, ret, supplier_fillers, suppliers_to_fill, free_capacity, carriers,
              intents>>

vars == <<calcVars, found_sources, memory, time, ticksRun, errors, pc, in_tick_unique_id, world, alive, spawning,
          citizens, room_states, requests, handled_requests, run_returned,
          room_requests, updated, room_state_updates, last_spawn, taskVars>>

\* find::SOURCES of a room, when the room is visible
SourcesOf(r) == found_sources[r]

\* ------------------------------------------------------------------ helpers
\* the value of F at e, with e evaluated once
With(e, F(_)) == CHOOSE y \in {F(x) : x \in {e}} : TRUE

SeqToSet(s) == {s[i] : i \in 1..Len(s)}

\* all orders in which a finite set can be iterated
RECURSIVE Perms(_)
Perms(S) ==
    IF S = {} THEN {<<>>}
    ELSE UNION {{<<x>> \o p : p \in Perms(S \ {x})} : x \in S}

\* HashMap::insert
MapInsert(m, k, v) == (k :> v) @@ m

\* HashMap::remove
MapRemove(m, k) == [x \in DOMAIN m \ {k} |-> m[x]]

EmptyMap == [x \in {} |-> x]

\* number of entries of a list that satisfy a test
CountIdx(s, Test(_)) == Len(SelectSeq(s, Test))

\* the indices (counted from 1) of the entries of a list that satisfy a
\* test, ascending
IndicesOf(list, Test(_)) ==
    LET At(i) == Test(list[i])
    IN  SelectSeq([i \in 1..Len(list) |-> i], At)

\* ------------------------------------------------------------------- jobs
FarmSourceJob(s) == [kind |-> "FarmSource", target_source |-> s]
RoomLogisticsJob == [kind |-> "RoomLogistics", target_source |-> NoSource]
BootstrapRoomJob == [kind |-> "BootstrapRoom", target_source |-> NoSource]

\* impl From<&OokCreepJob> for TargetSpawnKind
TargetSpawnKindFrom(job) ==
    CASE job.kind = "RoomLogistics" -> "Carrier"
      [] job.kind = "FarmSource" -> "Farmer"
      [] OTHER -> "Worker"

\* the race a job is spawned as (creep_spawn_options_from_job)
RaceOfJob(job) == IF job.kind = "RoomLogistics" THEN "Carrier" ELSE "Worker"

\* ---------------------------------------------------------------- requests
\* an id that leaves the in-tick counter out
UniqIdOfTick(t, n) == <<t, 0>>

\* UniqId::new: format!("{:x}-{:02x}", game::time(), get_in_tick_unique_id()).
\* The text is the tick in hexadecimal, a dash, the counter in hexadecimal:
\* two ids are the same text exactly when tick and counter are the same, so
\* an id is kept as the pair.
UniqId(t, n) == <<t, n>>

\* Request::new(RequestData::Citizen(..)) with the n-th id of the tick
NewRequest(t, n, room, job, panic) ==
    [request_id |-> UniqId(t, n),
     target_room_name |-> room,
     spawning_creep_name |-> NoName,
     initial_job |-> job,
     resolve_panic |-> panic]

\* the ids filed in the handled map, under any tick
HandledIds == UNION {DOMAIN handled_requests[t] : t \in DOMAIN handled_requests}

\* BWState::get_current_or_old_request: pending first, then any handled tick
HasCurrentOrOldRequest(id) == id \in DOMAIN requests \/ id \in HandledIds

GetCurrentOrOldRequest(id) ==
    IF id \in DOMAIN requests THEN requests[id]
    ELSE LET t == CHOOSE t \in DOMAIN handled_requests : id \in DOMAIN handled_requests[t]
         IN  handled_requests[t][id]

\* ------------------------------------------------------------------ Init
\* TargetSpawns::default() and the target populations found in memory
TargetSpawnsDefault == [carrier |-> 0, farmer |-> 0, worker |-> 0]
TargetSpawnsMem == [carrier |-> 1, farmer |-> 1, worker |-> 1]

\* a creep is its identity (name given at spawn) with the job in its memory
Creep(name, job) == [name |-> name, job |-> job]

\* data.helping_citizens as persisted for the home room by an earlier run of
\* the process: nothing, or a farmer and a carrier
MemHelpers == {<<>>, <<Creep(UniqId(0, 0), FarmSourceJob("sA")),
                       Creep(UniqId(0, 1), RoomLogisticsJob)>>}

\* BaseState::to_memory / SetupBaseState::to_memory: the kind of the room
\* state and its data (helping_citizens, target_spawns)
Persisted(kind, helpers, targets) ==
    [kind |-> kind, helping_citizens |-> helpers, target_spawns |-> targets]
ToMemory(rs) == Persisted(rs.kind, rs.helping_citizens, rs.target_spawns)

\* BaseState::update_from_memory / SetupBaseState::update_from_memory: Err
\* for the memory of a room state of the other kind
UpdateFromMemoryFails(rs, mem) == mem.kind # rs.kind

\* an update_from_memory that adds the target populations of memory to
\* those it has
UpdateFromMemoryAdding(rs, mem) ==
    [rs EXCEPT !.target_spawns =
        [role \in DOMAIN rs.target_spawns |->
            rs.target_spawns[role] + mem.target_spawns[role]]]

UpdateFromMemory(rs, mem) == [rs EXCEPT !.target_spawns = mem.target_spawns]

\* update_room_states_from_memory: the room states are walked and the first
\* Err ends the walk
UpdateRoomStatesFromMemory(states, mem) ==
    [r \in Rooms |->
        IF \E i \in 1..Len(RoomOrder) :
              /\ UpdateFromMemoryFails(states[RoomOrder[i]], mem[RoomOrder[i]])
              /\ \E j \in i..Len(RoomOrder) : RoomOrder[j] = r
        THEN states[r]
        ELSE UpdateFromMemory(states[r], mem[r])]

\* BaseState::load_from_memory / SetupBaseState::load_from_memory
LoadFromMemory(r, kind, helpers) ==
    [kind |-> kind,
     sources |-> IF kind = "Base" THEN SourcesOf(r) ELSE <<>>,
     helping_citizens |-> helpers,
     target_spawns |-> TargetSpawnsMem,
     open_requests |-> <<>>,
     panic_countdown |-> PanicNone]

\* no creep fills the spawns and extensions of a room
NoFilling ==
    /\ supplier_fillers = <<>>
    /\ suppliers_to_fill = {}
    /\ free_capacity = EmptyMap
    /\ carriers = EmptyMap
    /\ intents = EmptyMap

\* the creeps are not followed at their jobs
TasksIdle ==
    /\ NoFilling
    /\ citizen_tasks = EmptyMap
    /\ local_citizens = EmptyMap
    /\ job_queue = <<>>
    /\ jobs_ran = EmptyMap
    /\ job_log = EmptyMap

\* no function is applied on its own
NoCall ==
    /\ args = <<>>
    /\ ret = <<>>

\* construct_context, for what the passes over the regions work on: the
\* citizens are the creeps that exist, the room states are loaded from
\* memory, no request is pending or handled
ConstructContext(srcs, kinds, helpers, living) ==
    /\ NoCall
    /\ found_sources = srcs
    /\ time = 0
    /\ ticksRun = 0
    /\ errors = 0
    /\ pc = "idle"
    /\ in_tick_unique_id = 0
    /\ world = QuietWorld
    /\ spawning = {}
    /\ alive = living
    /\ citizens = living
    /\ memory = [r \in Rooms |->
           Persisted(kinds[r], IF r = "W1N1" THEN helpers ELSE <<>>, TargetSpawnsMem)]
    /\ room_states = [r \in Rooms |->
           LoadFromMemory(r, kinds[r], IF r = "W1N1" THEN helpers ELSE <<>>)]
    /\ requests = EmptyMap
    /\ handled_requests = EmptyMap
    /\ run_returned = [r \in Rooms |-> <<>>]
    /\ room_requests = EmptyMap
    /\ updated = {}
    /\ room_state_updates = {}
    /\ last_spawn = [r \in Rooms |-> [id |-> NoName, outcome |-> "none"]]

Init ==
    /\ \E srcs \in SourceMaps : \E kinds \in InitKinds : \E helpers \in MemHelpers :
       \E living \in SUBSET SeqToSet(helpers) :
           ConstructContext(srcs, kinds, helpers, living)
    /\ TasksIdle

\* ------------------------------------------------------------ the read pass
IsFarmer(c) == c.job.kind = "FarmSource"
IsCarrier(c) == RaceOfJob(c.job) = "Carrier"
IsPlainWorker(c) == RaceOfJob(c.job) = "Worker" /\ ~IsFarmer(c)

\* the helpers of a region that state.citizens knows, as the loops over
\* data.helping_citizens see them
KnownHelper(c) == c \in citizens

\* current_spawns of spawn_citizens_up_to_target
CurrentSpawns(rs) ==
    LET W(c) == KnownHelper(c) /\ IsPlainWorker(c)
        C(c) == KnownHelper(c) /\ IsCarrier(c)
    IN  [worker |-> CountIdx(rs.helping_citizens, W),
         carrier |-> CountIdx(rs.helping_citizens, C)]

\* the requests of a list of ids
RequestsOf(ids) == [i \in 1..Len(ids) |-> GetCurrentOrOldRequest(ids[i])]

\* the open requests of a region that are still known to the ledger
OpenRequestsOf(rs) ==
    With(SelectSeq(rs.open_requests, HasCurrentOrOldRequest), RequestsOf)

\* open_request_spawns of spawn_citizens_up_to_target, `open` being the open
\* requests of the region
OpenRequestSpawns(r, open) ==
    LET W(q) == q.initial_job.kind # "FarmSource" /\ q.target_room_name = r
                /\ TargetSpawnKindFrom(q.initial_job) = "Worker"
        C(q) == q.initial_job.kind # "FarmSource" /\ q.target_room_name = r
                /\ TargetSpawnKindFrom(q.initial_job) = "Carrier"
    IN  [worker |-> CountIdx(open, W), carrier |-> CountIdx(open, C)]

\* unhandled_sources: sources without a farmer helper and without an open
\* FarmSource request
UnhandledSources(rs, open) ==
    LET F(c) == KnownHelper(c) /\ IsFarmer(c)
        A(q) == q.initial_job.kind = "FarmSource"
        farmed == {c.job.target_source : c \in SeqToSet(SelectSeq(rs.helping_citizens, F))}
        asked == {q.initial_job.target_source : q \in SeqToSet(SelectSeq(open, A))}
    IN  (SeqToSet(rs.sources) \ farmed) \ asked

Proto(job, panic) == [job |-> job, panic |-> panic]

\* the FarmSource requests for the unhandled sources `un`, in the iteration
\* order `ord` of the HashSet
FarmProtos(un, ord) ==
    LET Un(s) == s \in un
        Ask(srcs) == [i \in 1..Len(srcs) |-> Proto(FarmSourceJob(srcs[i]), FALSE)]
    IN  With(SelectSeq(ord, Un), Ask)

\* a spawn_citizens_up_to_target that asks for a carrier whatever the
\* carriers it has
BaseProtosAnyCarrier(r, rs, open, ord) ==
    LET cur == CurrentSpawns(rs)
        opn == OpenRequestSpawns(r, open)
        w == IF cur.worker + opn.worker < rs.target_spawns.worker
             THEN <<Proto(BootstrapRoomJob, FALSE)>> ELSE <<>>
    IN  w \o <<Proto(RoomLogisticsJob, FALSE)>> \o FarmProtos(UnhandledSources(rs, open), ord)

\* BaseState::spawn_citizens_up_to_target
BaseProtos(r, rs, open, ord) ==
    LET cur == CurrentSpawns(rs)
        opn == OpenRequestSpawns(r, open)
        w == IF cur.worker + opn.worker < rs.target_spawns.worker
             THEN <<Proto(BootstrapRoomJob, FALSE)>> ELSE <<>>
        c == IF cur.carrier + opn.carrier < rs.target_spawns.carrier
             THEN <<Proto(RoomLogisticsJob, FALSE)>> ELSE <<>>
    IN  w \o c \o FarmProtos(UnhandledSources(rs, open), ord)

\* SetupBaseState::panicing
Panicing(rs) ==
    IF rs.panic_countdown # PanicNone
    THEN rs.panic_countdown > PANIC_THRESHOLD_TICKS
    ELSE FALSE

\* a spawn_panicing_citizens that asks for the carrier only
SpawnPanicingCarrier(r, rs, open) ==
    LET PC(q) == q.resolve_panic /\ q.initial_job.kind # "FarmSource"
                 /\ q.target_room_name = r
                 /\ TargetSpawnKindFrom(q.initial_job) = "Carrier"
        HC(c) == KnownHelper(c) /\ IsCarrier(c)
    IN  IF CountIdx(rs.helping_citizens, HC) > 0 \/ CountIdx(open, PC) > 0
        THEN <<>> ELSE <<Proto(RoomLogisticsJob, TRUE)>>

\* SetupBaseState::spawn_panicing_citizens
SpawnPanicingCitizens(r, rs, open) ==
    LET HF(c) == KnownHelper(c) /\ IsFarmer(c)
        HC(c) == KnownHelper(c) /\ IsCarrier(c)
        PF(q) == q.resolve_panic /\ q.initial_job.kind = "FarmSource"
        PC(q) == q.resolve_panic /\ q.initial_job.kind # "FarmSource"
                 /\ q.target_room_name = r
                 /\ TargetSpawnKindFrom(q.initial_job) = "Carrier"
        have_farmer == CountIdx(rs.helping_citizens, HF) > 0 \/ CountIdx(open, PF) > 0
        have_carrier == CountIdx(rs.helping_citizens, HC) > 0 \/ CountIdx(open, PC) > 0
        f == IF ~have_farmer /\ Len(rs.sources) > 0
             THEN <<Proto(FarmSourceJob(rs.sources[1]), TRUE)>> ELSE <<>>
        c == IF ~have_carrier THEN <<Proto(RoomLogisticsJob, TRUE)>> ELSE <<>>
    IN  f \o c

\* a tail that asks for a worker whatever the open carrier requests
SetupBaseTailOverCarrier(r, rs, open, f) ==
    LET cur == CurrentSpawns(rs)
        opn == OpenRequestSpawns(r, open)
        un == UnhandledSources(rs, open)
        c == IF un = {} /\ Len(f) = 0
                /\ cur.carrier + opn.carrier < rs.target_spawns.carrier
             THEN <<Proto(RoomLogisticsJob, FALSE)>> ELSE <<>>
        w == IF un = {} /\ Len(f) = 0 /\ Len(c) = 0
                /\ cur.worker + opn.worker < rs.target_spawns.worker
             THEN <<Proto(BootstrapRoomJob, FALSE)>> ELSE <<>>
    IN  f \o c \o w

\* the tail of SetupBaseState::spawn_citizens_up_to_target: f is what the
\* panic and the sources have asked for so far
SetupBaseTail(r, rs, open, f) ==
    LET cur == CurrentSpawns(rs)
        opn == OpenRequestSpawns(r, open)
        un == UnhandledSources(rs, open)
        c == IF un = {} /\ Len(f) = 0
                /\ cur.carrier + opn.carrier < rs.target_spawns.carrier
             THEN <<Proto(RoomLogisticsJob, FALSE)>> ELSE <<>>
        w == IF un = {} /\ opn.carrier = 0 /\ Len(f) = 0 /\ Len(c) = 0
                /\ cur.worker + opn.worker < rs.target_spawns.worker
             THEN <<Proto(BootstrapRoomJob, FALSE)>> ELSE <<>>
    IN  f \o c \o w

\* SetupBaseState::spawn_citizens_up_to_target
SetupBaseProtos(r, rs, open, ord) ==
    LET p == IF Panicing(rs) THEN SpawnPanicingCitizens(r, rs, open) ELSE <<>>
        Then(f) == SetupBaseTail(r, rs, open, f)
    IN  With(p \o FarmProtos(UnhandledSources(rs, open), ord), Then)

\* what BaseState::run / SetupBaseState::run asks for
Protos(r, ord) ==
    LET rs == room_states[r]
        Ask(open) == IF rs.kind = "Base" THEN BaseProtos(r, rs, open, ord)
                     ELSE SetupBaseProtos(r, rs, open, ord)
    IN  With(OpenRequestsOf(rs), Ask)

\* BaseState::run / SetupBaseState::run: the requests a region proposes, with
\* ids drawn from the in-tick counter starting at n
RunRoom(r, ord, n) ==
    LET Number(protos) ==
            [i \in 1..Len(protos) |->
                NewRequest(time, n + i - 1, r, protos[i].job, protos[i].panic)]
    IN  With(Protos(r, ord), Number)

\* the first loop of `run` over room_states, rooms k..Len(RoomOrder): returns
\* what every run() returned
RECURSIVE RunAll(_, _, _)
RunAll(k, ords, n) ==
    IF k > Len(RoomOrder) THEN EmptyMap
    ELSE LET r == RoomOrder[k]
             Rest(reqs) == MapInsert(RunAll(k + 1, ords, n + Len(reqs)), r, reqs)
         IN  With(RunRoom(r, ords[r], n), Rest)

\* `for request in requests { room_requests.insert(*id, request); }`
RECURSIVE InsertAll(_, _, _, _)
InsertAll(m, r, reqs, i) ==
    IF i > Len(reqs) THEN m
    ELSE InsertAll(MapInsert(m, r, reqs[i]), r, reqs, i + 1)

RECURSIVE CollectRoomRequests(_, _, _)
CollectRoomRequests(m, returned, k) ==
    IF k > Len(RoomOrder) THEN m
    ELSE CollectRoomRequests(InsertAll(m, RoomOrder[k], returned[RoomOrder[k]], 1),
                             returned, k + 1)

RECURSIVE SumLen(_, _)
SumLen(returned, k) ==
    IF k > Len(RoomOrder) THEN 0
    ELSE Len(returned[RoomOrder[k]]) + SumLen(returned, k + 1)

\* the orders in which the sources of the rooms can be iterated
SourceOrders ==
    {ords \in [Rooms -> UNION {Perms(SeqToSet(SourcesOf(r))) : r \in Rooms}] :
        \A r \in Rooms : ords[r] \in Perms(SeqToSet(SourcesOf(r)))}

\* a read pass that adds and logs what the regions ask for as it goes
ReadPassLogging ==
    /\ pc = "read"
    /\ \E ords \in SourceOrders :
       \E returned \in {RunAll(1, ords, in_tick_unique_id)} :
       \E collected \in {CollectRoomRequests(EmptyMap, returned, 1)} :
          /\ run_returned' = returned
          /\ room_requests' = collected
          /\ in_tick_unique_id' = in_tick_unique_id + SumLen(returned, 1)
          /\ requests' = [id \in DOMAIN requests \cup
                                 {collected[r].request_id : r \in DOMAIN collected} |->
                             IF id \in DOMAIN requests THEN requests[id]
                             ELSE LET r == CHOOSE x \in DOMAIN collected :
                                               collected[x].request_id = id
                                  IN  collected[r]]
          /\ room_states' = [r \in Rooms |->
                               IF r \in DOMAIN collected
                               THEN [room_states[r] EXCEPT !.open_requests =
                                        Append(@, collected[r].request_id)]
                               ELSE room_states[r]]
    /\ pc' = "apply"
    /\ UNCHANGED <<taskVars, calcVars, memory, found_sources, time, ticksRun, errors, world, alive, spawning,
                   citizens, handled_requests, updated, room_state_updates, last_spawn>>

\* main.rs run, lines 144-164
ReadPass ==
    /\ pc = "read"
    /\ \E ords \in SourceOrders :
       \E returned \in {RunAll(1, ords, in_tick_unique_id)} :
          /\ run_returned' = returned
          /\ room_requests' = CollectRoomRequests(EmptyMap, returned, 1)
          /\ in_tick_unique_id' = in_tick_unique_id + SumLen(returned, 1)
    /\ pc' = "apply"
    /\ UNCHANGED <<taskVars, calcVars, memory, found_sources, time, ticksRun, errors, world, alive, spawning,
                   citizens, room_states, requests, handled_requests, updated,
                   room_state_updates, last_spawn>>

\* BaseState::request_logged / SetupBaseState::request_logged
RequestLogged(rs, id) == [rs EXCEPT !.open_requests = Append(@, id)]

\* BWState::add_request
AddRequest(reqs, q) == MapInsert(reqs, q.request_id, q)

\* the second loop of `run`, its part on the ledger: add_request for every
\* entry of room_requests
RECURSIVE AddAll(_, _)
AddAll(reqs, rooms) ==
    IF rooms = {} THEN reqs
    ELSE LET r == CHOOSE x \in rooms : TRUE
         IN  AddAll(AddRequest(reqs, room_requests[r]), rooms \ {r})

\* main.rs run, lines 165-185: add_request, then request_logged on the room
ApplyRequests ==
    /\ pc = "apply"
    /\ requests' = AddAll(requests, DOMAIN room_requests)
    /\ room_states' = [r \in Rooms |->
                         IF r \in DOMAIN room_requests
                         THEN RequestLogged(room_states[r], room_requests[r].request_id)
                         ELSE room_states[r]]
    /\ run_returned' = [r \in Rooms |-> <<>>]
    /\ room_requests' = EmptyMap
    /\ pc' = "assign"
    /\ UNCHANGED <<taskVars, calcVars, memory, found_sources, time, ticksRun, errors, in_tick_unique_id, world,
                   alive, spawning, citizens, handled_requests, updated,
                   room_state_updates, last_spawn>>

\* ------------------------------------------------- assignment, fulfillment
\* an assignment in which the last request iterated always takes the room
AssignOneOverwrite(handlers, q) == (q.target_room_name :> q) @@ handlers

\* one iteration of the loop of assign_requests (every request is a Citizen
\* request whose target room has a room state): a Base room takes the
\* request, a SetupBase room takes it unless it holds a panic request
AssignOne(handlers, q) ==
    LET room == q.target_room_name
    IN  IF room_states[room].kind = "Base"
        THEN MapInsert(handlers, room, q)
        ELSE IF room \in DOMAIN handlers
             THEN IF ~handlers[room].resolve_panic
                  THEN MapInsert(handlers, room, q)
                  ELSE handlers
             ELSE MapInsert(handlers, room, q)

\* assign_requests, iterating state.requests in the order `ord` of its ids
RECURSIVE AssignRequests(_, _, _)
AssignRequests(handlers, ord, i) ==
    IF i > Len(ord) THEN handlers
    ELSE LET Rest(h) == AssignRequests(h, ord, i + 1)
         IN  With(AssignOne(handlers, requests[ord[i]]), Rest)

\* what a fulfillment attempt can come to
Outcomes == {"invisible", "skipped", "error", "rejected", "ok"}

\* what a fulfillment attempt in a room can come to: the room is not visible
\* (rooms::get is None), no body is affordable (TrySpawnResult::Skipped),
\* try_spawn fails for want of a spawn, the spawn call is rejected (return
\* code other than OK), or the spawn call returns OK
SpawnOutcomes(r) ==
    CASE world[r] = "hidden" -> {"invisible"}
      [] world[r] = "nospawn" -> {"skipped", "error"}
      [] OTHER -> {"skipped", "rejected", "ok"}

\* create_creep_name is called (and draws an id) when a spawn call is made
DrawsName(outcome) == outcome \in {"rejected", "ok"}

\* a request_handled that files under the current tick whatever the option
RequestHandledAtOnce(st, q, delay) ==
    IF q.request_id \in DOMAIN st.requests
    THEN [st EXCEPT
            !.requests = [x \in DOMAIN @ \ {q.request_id} |-> @[x]],
            !.handled_requests =
                (time :> ((q.request_id :> q) @@
                          (IF time \in DOMAIN @ THEN @[time] ELSE [x \in {} |-> x]))) @@ @]
    ELSE st

\* a request_handled that files, with the request, every pending request
\* of the same room
RequestHandledWithRoom(st, q, delay) ==
    LET tick_handled == time + delay
        same == {id \in DOMAIN st.requests :
                    st.requests[id].target_room_name = q.target_room_name}
        filed == IF tick_handled \in DOMAIN st.handled_requests
                 THEN st.handled_requests[tick_handled] ELSE EmptyMap
    IN  IF q.request_id \in DOMAIN st.requests
        THEN [st EXCEPT
                !.requests = [id \in DOMAIN @ \ same |-> @[id]],
                !.handled_requests =
                    MapInsert(@, tick_handled,
                        [id \in same \cup DOMAIN filed |->
                            IF id = q.request_id THEN q
                            ELSE IF id \in same THEN st.requests[id]
                            ELSE filed[id]])]
        ELSE st

\* a request_handled that files the request whether it is pending or not
RequestHandledUnasked(st, q, delay) ==
    LET tick_handled == time + delay
    IN  [st EXCEPT
            !.requests = MapRemove(@, q.request_id),
            !.handled_requests =
                MapInsert(@, tick_handled,
                    MapInsert(IF tick_handled \in DOMAIN @ THEN @[tick_handled]
                              ELSE EmptyMap,
                              q.request_id, q))]

\* BWState::request_handled with RequestHandledOpts::DelayHandleForOneTick
\* (delay = 1) or RequestHandledOpts::None (delay = 0)
RequestHandled(st, q, delay) ==
    LET tick_handled == time + delay
    IN  IF q.request_id \in DOMAIN st.requests
        THEN [st EXCEPT
                !.requests = MapRemove(@, q.request_id),
                !.handled_requests =
                    MapInsert(@, tick_handled,
                        MapInsert(IF tick_handled \in DOMAIN @ THEN @[tick_handled]
                                  ELSE EmptyMap,
                                  q.request_id, q))]
        ELSE st

\* a fulfillment that takes every spawn call for a success, whatever its
\* return code
HandleOneAnyCode(st, q, outcome) ==
    IF outcome \in {"ok", "rejected"}
    THEN LET name == <<time, st.n>>
         IN  [st EXCEPT
                !.requests = [x \in DOMAIN @ \ {q.request_id} |-> @[x]],
                !.handled_requests =
                    ((time + 1) :> ((q.request_id :>
                                        [q EXCEPT !.spawning_creep_name = name]) @@
                                    (IF (time + 1) \in DOMAIN @ THEN @[time + 1]
                                     ELSE [x \in {} |-> x]))) @@ @,
                !.spawning = IF outcome = "ok"
                             THEN @ \cup {[name |-> name, job |-> q.initial_job]}
                             ELSE @,
                !.n = @ + 1]
    ELSE st

\* one iteration of the loop of dummy_handle_requests: the attempt for
\* request q comes to `outcome`
HandleOne(st, q, outcome) ==
    IF outcome = "ok"
    THEN LET name == UniqId(time, st.n)
             handled == RequestHandled(st, [q EXCEPT !.spawning_creep_name = name], 1)
         IN  [handled EXCEPT !.spawning = @ \cup {Creep(name, q.initial_job)},
                             !.n = @ + 1]
    ELSE [st EXCEPT !.n = IF DrawsName(outcome) THEN @ + 1 ELSE @]

\* dummy_handle_requests over the handlers of rooms k..Len(RoomOrder); `out`
\* gives the outcome of each room's attempt
RECURSIVE DummyHandleRequests(_, _, _, _)
DummyHandleRequests(st, handlers, out, k) ==
    IF k > Len(RoomOrder) THEN st
    ELSE LET r == RoomOrder[k]
             Rest(st2) == DummyHandleRequests(st2, handlers, out, k + 1)
         IN  IF r \notin DOMAIN handlers
             THEN DummyHandleRequests(st, handlers, out, k + 1)
             ELSE With(HandleOne(st, handlers[r], out[r]), Rest)

\* main.rs run, lines 654-663
AssignAndHandle ==
    /\ pc = "assign"
    /\ \E handlers \in {AssignRequests(EmptyMap, ord, 1) : ord \in Perms(DOMAIN requests)} :
       \E out \in [Rooms -> Outcomes] :
          /\ \A r \in Rooms : IF r \in DOMAIN handlers
                              THEN out[r] \in SpawnOutcomes(r)
                              ELSE out[r] = "invisible"
          /\ \E st0 \in {[requests |-> requests, handled_requests |-> handled_requests,
                          spawning |-> spawning, n |-> in_tick_unique_id]} :
             \E st1 \in {DummyHandleRequests(st0, handlers, out, 1)} :
                /\ requests' = st1.requests
                /\ handled_requests' = st1.handled_requests
                /\ spawning' = st1.spawning
                /\ in_tick_unique_id' = st1.n
          /\ last_spawn' = [r \in Rooms |->
                              IF r \in DOMAIN handlers
                              THEN [id |-> handlers[r].request_id, outcome |-> out[r]]
                              ELSE [id |-> NoName, outcome |-> "none"]]
    /\ pc' = "update"
    /\ UNCHANGED <<taskVars, calcVars, memory, found_sources, time, ticksRun, errors, world, alive, citizens,
                   room_states, run_returned, room_requests, updated, room_state_updates>>

\* ------------------------------------------------------------ the update pass
\* a status check that never clears the counter
CheckRoomStatusCounting(rs) ==
    IF rs.panic_countdown = PanicNone THEN [rs EXCEPT !.panic_countdown = 1]
    ELSE IF rs.panic_countdown <= PANIC_THRESHOLD_TICKS
    THEN [rs EXCEPT !.panic_countdown = @ + 1]
    ELSE rs

\* BaseState::check_room_status / SetupBaseState::check_room_status: Base
\* stops counting at the threshold, SetupBase one above it
CheckRoomStatus(rs) ==
    LET F(c) == KnownHelper(c) /\ IsFarmer(c)
        R(c) == KnownHelper(c) /\ IsCarrier(c)
        farmer_exist == CountIdx(rs.helping_citizens, F) > 0
        runner_exist == CountIdx(rs.helping_citizens, R) > 0
        counting == IF rs.kind = "Base"
                    THEN rs.panic_countdown < PANIC_THRESHOLD_TICKS
                    ELSE rs.panic_countdown <= PANIC_THRESHOLD_TICKS
    IN  IF rs.panic_countdown # PanicNone
        THEN IF farmer_exist /\ runner_exist
             THEN [rs EXCEPT !.panic_countdown = PanicNone]
             ELSE IF counting
                  THEN [rs EXCEPT !.panic_countdown = @ + 1]
                  ELSE rs
        ELSE IF ~farmer_exist \/ ~runner_exist
             THEN [rs EXCEPT !.panic_countdown = 1]
             ELSE rs

\* Vec::remove(i) for each index of `idxs` in turn (indices counted from 1):
\* every removal shifts the elements behind it, and an index beyond the end
\* makes Vec::remove panic
RECURSIVE RemoveEach(_, _, _)
RemoveEach(list, idxs, k) ==
    IF k > Len(idxs) THEN [panic |-> FALSE, list |-> list]
    ELSE IF idxs[k] > Len(list) THEN [panic |-> TRUE, list |-> list]
    ELSE LET Rest(l) == RemoveEach(l, idxs, k + 1)
         IN  With(SubSeq(list, 1, idxs[k] - 1) \o SubSeq(list, idxs[k] + 1, Len(list)),
                  Rest)

\* get_object_typed(id) / creeps::get(name) of this tick
CreepNames == {c.name : c \in alive}
CreepNamed(name) == CHOOSE c \in alive : c.name = name

\* the part of update that prunes data.helping_citizens (gone_citizens)
PruneHelpers(rs) ==
    LET Gone(c) == c \notin alive
        Remove(idxs) == RemoveEach(rs.helping_citizens, idxs, 1)
        res == With(IndicesOf(rs.helping_citizens, Gone), Remove)
    IN  [panic |-> res.panic, rs |-> [rs EXCEPT !.helping_citizens = res.list]]

\* handled_requests.get(&game::time())
HandledNow == IF time \in DOMAIN handled_requests THEN handled_requests[time] ELSE EmptyMap

\* an open request that update closes: it was handled for this tick and
\* carries the name of its creep
Closed(id) == id \in DOMAIN HandledNow /\ HandledNow[id].spawning_creep_name # NoName

\* an update that registers no helper for the requests it closes
PushedNoHelpers(open) == <<>>

\* the helpers pushed while the open requests are walked: one per closed
\* request whose creep creeps::get finds
PushedHelpers(open) ==
    LET Found(id) == Closed(id) /\ HandledNow[id].spawning_creep_name \in CreepNames
        Get(ids) == [i \in 1..Len(ids) |->
                        CreepNamed(HandledNow[ids[i]].spawning_creep_name)]
    IN  With(SelectSeq(open, Found), Get)

\* the part of update that closes the requests handled for this tick
CloseRequests(rs) ==
    LET Remove(idxs) == RemoveEach(rs.open_requests, idxs, 1)
        res == With(IndicesOf(rs.open_requests, Closed), Remove)
    IN  [panic |-> res.panic,
         rs |-> [rs EXCEPT !.helping_citizens = @ \o PushedHelpers(rs.open_requests),
                           !.open_requests = res.list]]

\* the part of update that refreshes what is seen of the room, which the
\* world shows as `shown`
RefreshRoom(r, rs, shown) ==
    IF rs.kind = "Base"
    THEN IF shown = "hidden" THEN rs ELSE [rs EXCEPT !.sources = SourcesOf(r)]
    ELSE [rs EXCEPT !.sources = IF shown = "hidden" THEN <<>> ELSE SourcesOf(r)]

\* RoomStateChange returned by BaseState::update (SetupBaseState::update
\* always returns None)
StateChange(rs, shown) ==
    IF rs.kind = "Base" /\ shown # "spawn" THEN "Helpless" ELSE "None"

\* update, after the room was refreshed
PruneAndClose(rs) ==
    LET Close(pruned) ==
            IF pruned.panic THEN pruned
            ELSE CloseRequests(pruned.rs)
    IN  With(PruneHelpers(rs), Close)

\* one iteration of the loop of main.rs run, lines 667-694: check_room_status,
\* then update
UpdateOne(r) ==
    LET Update(checked) ==
            LET res == PruneAndClose(RefreshRoom(r, checked, world[r]))
            IN  [panic |-> res.panic, rs |-> res.rs,
                 change |-> StateChange(checked, world[r])]
    IN  With(CheckRoomStatus(room_states[r]), Update)

\* the locals of `run` are dropped when the tick is over; what the world
\* showed during the tick is of no account once it is over
TickOver ==
    /\ pc' = "idle"
    /\ UNCHANGED <<taskVars, calcVars, found_sources>>
    /\ in_tick_unique_id' = 0
    /\ world' = QuietWorld
    /\ run_returned' = [r \in Rooms |-> <<>>]
    /\ room_requests' = EmptyMap
    /\ updated' = {}
    /\ room_state_updates' = {}
    /\ last_spawn' = [r \in Rooms |-> [id |-> NoName, outcome |-> "none"]]

UpdateFrame == UNCHANGED <<taskVars, calcVars, memory, found_sources, time, ticksRun, in_tick_unique_id, world, alive, spawning,
                           citizens, requests, handled_requests, run_returned,
                           room_requests, last_spawn>>

\* the room states after the loop has updated the rooms of U and has failed
\* in room f right after its check_room_status (f outside Rooms: no failure)
AfterUpdates(U, f) ==
    [r \in Rooms |-> IF r \in U THEN UpdateOne(r).rs
                     ELSE IF r = f THEN CheckRoomStatus(room_states[r])
                     ELSE room_states[r]]

\* main.rs run, lines 665-695: the loop over room_states reaches every room
UpdatePass ==
    /\ pc = "update"
    /\ \A r \in Rooms : ~UpdateOne(r).panic
    /\ room_states' = AfterUpdates(Rooms, "")
    /\ room_state_updates' = {r \in Rooms : UpdateOne(r).change = "Helpless"}
    /\ updated' = Rooms
    /\ pc' = "finish"
    /\ UNCHANGED errors
    /\ UpdateFrame

\* update of room f returns an error (calc_resource_providers,
\* get_object_typed): the `?` leaves the closure after the rooms of U were
\* updated; the other rooms are not reached and the tick is over
UpdatePassError ==
    /\ pc = "update"
    /\ errors < MaxErrors
    /\ \E U \in SUBSET Rooms : \E f \in Rooms \ U :
          /\ \A r \in U : ~UpdateOne(r).panic
          /\ room_states' = AfterUpdates(U, f)
    /\ errors' = errors + 1
    /\ TickOver
    /\ UNCHANGED <<memory, time, ticksRun, alive, spawning, citizens, requests,
                   handled_requests>>

\* Vec::remove panics inside the update of room f: the process is lost
UpdatePassPanic ==
    /\ pc = "update"
    /\ \E U \in SUBSET Rooms : \E f \in Rooms \ U :
          /\ \A r \in U : ~UpdateOne(r).panic
          /\ UpdateOne(f).panic
          /\ room_states' = [AfterUpdates(U, "") EXCEPT ![f] = UpdateOne(f).rs]
          /\ updated' = U
    /\ pc' = "panicked"
    /\ UNCHANGED <<room_state_updates, errors>>
    /\ UpdateFrame

\* SetupBaseState::new
SetupBaseStateNew(r) ==
    [kind |-> "SetupBase",
     sources |-> IF world[r] = "hidden" THEN <<>> ELSE SourcesOf(r),
     helping_citizens |-> <<>>,
     target_spawns |-> TargetSpawnsDefault,
     open_requests |-> <<>>,
     panic_countdown |-> PanicNone]

\* an end of tick that makes a Base region of a SetupBase region whose room
\* shows a spawn
FinishTickRebuilding ==
    /\ pc = "finish"
    /\ room_states' = [r \in Rooms |->
                         IF r \in room_state_updates THEN SetupBaseStateNew(r)
                         ELSE IF room_states[r].kind = "SetupBase" /\ world[r] = "spawn"
                         THEN [room_states[r] EXCEPT !.kind = "Base"]
                         ELSE room_states[r]]
    /\ citizens' = alive
    /\ memory' = [r \in Rooms |-> ToMemory(room_states'[r])]
    /\ TickOver
    /\ UNCHANGED <<time, ticksRun, errors, alive, spawning, requests, handled_requests>>

\* main.rs run, lines 696-713: the Helpless rooms are replaced, the
\* citizens of this tick are stored, the room states are persisted
\* (persist_room_states)
FinishTick ==
    /\ pc = "finish"
    /\ room_states' = [r \in Rooms |->
                         IF r \in room_state_updates THEN SetupBaseStateNew(r)
                         ELSE room_states[r]]
    /\ citizens' = alive
    /\ memory' = [r \in Rooms |-> ToMemory(room_states'[r])]
    /\ TickOver
    /\ UNCHANGED <<time, ticksRun, errors, alive, spawning, requests, handled_requests>>

\* ---------------------------------------------------------- start of a tick
\* the world moves on by one tick: creeps whose spawn was started may have
\* come to exist, creeps may have died, rooms change what they show
WorldStep(w) ==
    /\ UNCHANGED <<taskVars, calcVars, memory, found_sources>>
    /\ time' = time + 1
    /\ world' = w
    /\ \E born \in SUBSET spawning : \E died \in SUBSET alive :
          /\ Cardinality(died) <= MaxDeaths
          /\ alive' = (alive \ died) \cup born
    /\ spawning' = {}

\* BWState::next_tick and the start of `run` (lines 113-142), with
\* update_room_states_from_memory
StartTick ==
    /\ pc = "idle"
    /\ ticksRun < MaxTicks
    /\ \E w \in Worlds : WorldStep(w)
    /\ ticksRun' = ticksRun + 1
    /\ in_tick_unique_id' = 0
    /\ pc' = "read"
    /\ room_states' = UpdateRoomStatesFromMemory(room_states, memory)
    /\ UNCHANGED <<errors, citizens, requests, handled_requests,
                   run_returned, room_requests, updated, room_state_updates, last_spawn>>

\* maintain_room fails: `?` ends the tick before any pass
StartTickAbort ==
    /\ pc = "idle"
    /\ ticksRun < MaxTicks
    /\ errors < MaxErrors
    /\ errors' = errors + 1
    /\ WorldStep(QuietWorld)
    /\ ticksRun' = ticksRun + 1
    /\ in_tick_unique_id' = 0
    /\ pc' = "idle"
    /\ room_states' = UpdateRoomStatesFromMemory(room_states, memory)
    /\ UNCHANGED <<citizens, requests, handled_requests, run_returned,
                   room_requests, updated, room_state_updates, last_spawn>>

\* ------------------------------------------------------------- quiet ticks
\* CheckRoomStatus k times over (k = 2h or 2h + 1: h times, h times again,
\* and once more when k is odd)
RECURSIVE CheckTimes(_, _)
CheckTimes(rs, k) ==
    IF k = 0 THEN rs
    ELSE LET Odd(twice) == IF k % 2 = 1 THEN CheckRoomStatus(twice) ELSE twice
             Again(once) == With(CheckTimes(once, k \div 2), Odd)
         IN  With(CheckTimes(rs, k \div 2), Again)

\* the panic counter as a number
Countdown(rs) == IF rs.panic_countdown = PanicNone THEN 0 ELSE rs.panic_countdown

\* the ticks that can pass before a SetupBase room is panicing at its read
\* pass, when nothing but the counters moves
QuietSpan ==
    LET left == {PANIC_THRESHOLD_TICKS + 1 - Countdown(room_states[r]) :
                    r \in {x \in Rooms : room_states[x].kind = "SetupBase"}}
    IN  IF left = {} THEN 0
        ELSE CHOOSE k \in left : \A j \in left : k <= j

\* a world that shows every room as its room state has it
QuietWorlds ==
    {w \in Worlds : \A r \in Rooms :
        /\ RefreshRoom(r, room_states[r], w[r]) = room_states[r]
        /\ StateChange(room_states[r], w[r]) = "None"}

\* a run of QuietSpan whole ticks in which no region asks for anything, no
\* spawn is started, no creep is born or dies and no room changes what it
\* shows, and memory holds nothing new: all that moves is the time and,
\* through check_room_status, the panic counters of the rooms; the passes of
\* these ticks are those of StartTick .. FinishTick, taken at once
QuietTicks ==
    /\ pc = "idle"
    /\ ticksRun < MaxTicks
    /\ UpdateRoomStatesFromMemory(room_states, memory) = room_states
    /\ spawning = {}
    /\ \A t \in DOMAIN handled_requests : t <= time
    /\ citizens = alive
    /\ \A r \in Rooms : SeqToSet(room_states[r].helping_citizens) \subseteq alive
    /\ \A r \in Rooms : \A ords \in SourceOrders : Protos(r, ords[r]) = <<>>
    /\ QuietWorlds # {}
    /\ QuietSpan > 0
    /\ \A r \in Rooms : CheckRoomStatus(room_states[r]) # room_states[r]
    /\ time' = time + QuietSpan
    /\ room_states' = [r \in Rooms |-> CheckTimes(room_states[r], QuietSpan)]
    /\ memory' = [r \in Rooms |-> ToMemory(room_states'[r])]
    /\ UNCHANGED <<taskVars, calcVars, found_sources, ticksRun, errors, pc, in_tick_unique_id, world, alive,
                   spawning, citizens, requests, handled_requests, run_returned, room_requests,
                   updated, room_state_updates, last_spawn>>

Next ==
    \/ StartTick
    \/ StartTickAbort
    \/ QuietTicks
    \/ ReadPass
    \/ ApplyRequests
    \/ AssignAndHandle
    \/ UpdatePass
    \/ UpdatePassError
    \/ UpdatePassPanic
    \/ FinishTick

Spec == Init /\ [][Next]_vars

\* ------------------------------------------------- a home room under setup
\* the requests of the first two ticks of a process whose rooms are both
\* under setup, without creeps and without spawn: every room asks for its
\* carrier in tick 1, and the home room, once it has seen its source, for
\* the farmer of the source in tick 2
SetupRequests(seen) ==
    LET first == AddRequest(AddRequest(EmptyMap,
                    NewRequest(1, 0, "W1N1", RoomLogisticsJob, FALSE)),
                    NewRequest(1, 1, "W2N1", RoomLogisticsJob, FALSE))
    IN  IF seen THEN AddRequest(first, NewRequest(2, 0, "W1N1", FarmSourceJob("sA"), FALSE))
        ELSE first

\* the room states after these two ticks: the requests are open, the status
\* checks have counted two ticks without farmer and carrier
SetupRoomStates(seen) ==
    [r \in Rooms |->
        [kind |-> "SetupBase",
         sources |-> IF seen /\ r = "W1N1" THEN <<"sA">> ELSE <<>>,
         helping_citizens |-> <<>>,
         target_spawns |-> TargetSpawnsMem,
         open_requests |-> IF r = "W2N1" THEN <<UniqId(1, 1)>>
                           ELSE IF seen THEN <<UniqId(1, 0), UniqId(2, 0)>>
                           ELSE <<UniqId(1, 0)>>,
         panic_countdown |-> 2]]

\* the process after its first two ticks, the home room having shown itself
\* in tick 1 or not at all
SetupInit ==
    /\ NoCall
    /\ \E seen \in BOOLEAN :
          /\ room_states = SetupRoomStates(seen)
          /\ memory = [r \in Rooms |-> ToMemory(SetupRoomStates(seen)[r])]
          /\ requests = SetupRequests(seen)
    /\ found_sources = [r \in Rooms |-> IF r = "W1N1" THEN <<"sA">> ELSE <<"sC">>]
    /\ time = 2
    /\ ticksRun = 0
    /\ errors = 0
    /\ pc = "idle"
    /\ in_tick_unique_id = 0
    /\ world = QuietWorld
    /\ spawning = {}
    /\ alive = {}
    /\ citizens = {}
    /\ handled_requests = EmptyMap
    /\ run_returned = [r \in Rooms |-> <<>>]
    /\ room_requests = EmptyMap
    /\ updated = {}
    /\ room_state_updates = {}
    /\ last_spawn = [r \in Rooms |-> [id |-> NoName, outcome |-> "none"]]
    /\ TasksIdle

\* the ticks that follow: nothing is spawned in them, so that no update
\* closes a request
SetupNext ==
    \/ StartTick
    \/ StartTickAbort
    \/ QuietTicks
    \/ ReadPass
    \/ ApplyRequests
    \/ AssignAndHandle
    \/ UpdatePass
    \/ UpdatePassError
    \/ FinishTick

SetupSpec == SetupInit /\ [][SetupNext]_vars

\* --------------------------------------------- a home room after a spawn
\* the process after a first tick in which the home room, a Base with a
\* spawn and the source sA, has asked for a worker, a carrier and a farmer
\* (the last one is kept) and the remote room for its carrier: the farmer
\* was spawned and its request is filed as handled under tick 2
FarmerAsked == NewRequest(1, 2, "W1N1", FarmSourceJob("sA"), FALSE)
FarmerSpawned == Creep(UniqId(1, 4), FarmSourceJob("sA"))

SpawnedRoomStates ==
    [r \in Rooms |->
        [kind |-> IF r = "W1N1" THEN "Base" ELSE "SetupBase",
         sources |-> IF r = "W1N1" THEN <<"sA">> ELSE <<>>,
         helping_citizens |-> <<>>,
         target_spawns |-> TargetSpawnsMem,
         open_requests |-> IF r = "W1N1" THEN <<UniqId(1, 2)>> ELSE <<UniqId(1, 3)>>,
         panic_countdown |-> 1]]

SpawnedInit ==
    /\ NoCall
    /\ room_states = SpawnedRoomStates
    /\ memory = [r \in Rooms |-> ToMemory(SpawnedRoomStates[r])]
    /\ requests = AddRequest(EmptyMap, NewRequest(1, 3, "W2N1", RoomLogisticsJob, FALSE))
    /\ handled_requests =
           (2 :> (UniqId(1, 2) :>
                     [FarmerAsked EXCEPT !.spawning_creep_name = FarmerSpawned.name]))
    /\ found_sources = [r \in Rooms |-> IF r = "W1N1" THEN <<"sA">> ELSE <<"sC">>]
    /\ time = 1
    /\ ticksRun = 0
    /\ errors = 0
    /\ pc = "idle"
    /\ in_tick_unique_id = 0
    /\ world = QuietWorld
    /\ spawning = {FarmerSpawned}
    /\ alive = {}
    /\ citizens = {}
    /\ run_returned = [r \in Rooms |-> <<>>]
    /\ room_requests = EmptyMap
    /\ updated = {}
    /\ room_state_updates = {}
    /\ last_spawn = [r \in Rooms |-> [id |-> NoName, outcome |-> "none"]]
    /\ TasksIdle

\* the ticks that follow are those of SetupNext: no room comes to panic in
\* them
SpawnedSpec == SpawnedInit /\ [][SetupNext]_vars

\* ------------------------------------------------------ the status checks
\* the helpers that come and go in the home room under setup: a farmer and a
\* carrier; their identity bears on nothing that check_room_status does, so
\* that a helper that joins after one of its job has died goes by its name
StatusHelpers == {Creep(UniqId(0, 0), FarmSourceJob("sA")),
                  Creep(UniqId(0, 1), RoomLogisticsJob)}

\* construct_context with both rooms under setup, the helpers persisted for
\* the home room being creeps that live
StatusInit ==
    /\ \E helpers \in {<<>>} \cup {<<c>> : c \in StatusHelpers} \cup MemHelpers :
          ConstructContext([r \in Rooms |-> IF r = "W1N1" THEN <<"sA">> ELSE <<"sC">>],
                           [r \in Rooms |-> "SetupBase"],
                           helpers, SeqToSet(helpers))
    /\ TasksIdle

StatusFrame == UNCHANGED <<taskVars, calcVars, memory, found_sources, time, ticksRun, errors, pc,
                           in_tick_unique_id, world, spawning, requests, handled_requests,
                           run_returned, room_requests, updated, room_state_updates,
                           last_spawn>>

\* the status checks of one tick (main.rs run, lines 667-691):
\* check_room_status of every room with the citizens of state.citizens
CheckStatus ==
    /\ room_states' = [r \in Rooms |-> CheckRoomStatus(room_states[r])]
    /\ UNCHANGED <<alive, citizens>>
    /\ StatusFrame

\* between two status checks a creep spawned for the home room becomes its
\* helper (SetupBaseState::update pushes it) and a citizen of state.citizens
HelperJoins ==
    /\ \E c \in StatusHelpers \ SeqToSet(room_states["W1N1"].helping_citizens) :
          /\ room_states' = [room_states EXCEPT !["W1N1"].helping_citizens = Append(@, c)]
          /\ alive' = alive \cup {c}
          /\ citizens' = citizens \cup {c}
    /\ StatusFrame

\* between two status checks a helper dies: it is no citizen any more and
\* SetupBaseState::update drops it from the helpers
HelperDies ==
    /\ \E c \in SeqToSet(room_states["W1N1"].helping_citizens) :
          /\ LET Others(h) == h # c
             IN  room_states' = [room_states EXCEPT
                                   !["W1N1"].helping_citizens = SelectSeq(@, Others)]
          /\ alive' = alive \ {c}
          /\ citizens' = citizens \ {c}
    /\ StatusFrame

StatusNext ==
    \/ CheckStatus
    \/ HelperJoins
    \/ HelperDies

StatusSpec == StatusInit /\ [][StatusNext]_vars

\* ------------------------------------------- the process is reconstructed
\* init_room_states for one room: load_from_memory of the kind found in
\* memory, with the data found there
LoadRoomState(r, mem) ==
    [LoadFromMemory(r, mem.kind, mem.helping_citizens)
        EXCEPT !.target_spawns = mem.target_spawns]

\* construct_context between two ticks: the process was destroyed, the
\* citizens are the creeps that exist, the room states are loaded from
\* memory (the rooms of the Base states are visible), no request is pending
\* or handled
Restart ==
    /\ pc = "idle"
    /\ ticksRun >= 1
    /\ citizens' = alive
    /\ room_states' = [r \in Rooms |-> LoadRoomState(r, memory[r])]
    /\ requests' = EmptyMap
    /\ handled_requests' = EmptyMap
    /\ in_tick_unique_id' = 0
    /\ run_returned' = [r \in Rooms |-> <<>>]
    /\ room_requests' = EmptyMap
    /\ updated' = {}
    /\ room_state_updates' = {}
    /\ last_spawn' = [r \in Rooms |-> [id |-> NoName, outcome |-> "none"]]
    /\ UNCHANGED <<taskVars, calcVars, memory, found_sources, time, ticksRun, errors, pc, world,
                   alive, spawning>>

\* the target populations that the owner of the bot writes to memory
EditedTargets == {TargetSpawnsMem, [carrier |-> 1, farmer |-> 1, worker |-> 0]}

\* between two ticks the owner of the bot edits the target populations of
\* a room in memory
MemoryEdited ==
    /\ pc = "idle"
    /\ \E r \in Rooms : \E t \in EditedTargets :
          /\ t # memory[r].target_spawns
          /\ memory' = [memory EXCEPT ![r].target_spawns = t]
    /\ UNCHANGED <<taskVars, calcVars, found_sources, time, ticksRun, errors, pc, in_tick_unique_id,
                   world, alive, spawning, citizens, room_states, requests,
                   handled_requests, run_returned, room_requests, updated,
                   room_state_updates, last_spawn>>

MemoryNext == Next \/ Restart \/ MemoryEdited
MemorySpec == Init /\ [][MemoryNext]_vars

\* --------------------------------------------------------- creeps at work
\* jobs that the regions of this model never ask for but that the memory of
\* a creep can hold
UpgradeControllerJob == [kind |-> "UpgradeController", target_source |-> NoSource]
MaintainStructuresJob == [kind |-> "MaintainStructures", target_source |-> NoSource]

\* OokRace: a creep with its race, its job and its task
OokRace(race, job, task) == [race |-> race, job |-> job, task |-> task]

\* a task is its kind, the Step (or CreepRunnerState) it is in and, where the
\* step holds one, the kind of thing energy is taken from; Option::None is
\* NoTask
Task(kind, step, from) == [kind |-> kind, step |-> step, from |-> from]
NoTask == Task("None", "-", "-")

\* OokTaskRunnableResult, and the Err of the Result around it
TaskResults == {"Continue", "Finish", "CancelAndDoAnother"}

\* what a do_job call finds in the world:
\*   energy   the store of the creep: empty, some, full
\*   where    the creep relative to the target of its task (the construction
\*            site, the controller, the source, the place it fetches from or
\*            delivers to): near it, in its room, elsewhere with that room
\*            visible, elsewhere with that room hidden
\*   object   get_object_typed of that target is Some
\*   supply   the ResourceProvider of a GetEnergy step: gone, far, near,
\*            or near and giving all that is asked (taken)
\*   provider what calc_resource_provider returns
\*   site     the room of the creep has a construction site
\*   under    a container lies under the dropped resource
\*   enough   the creep carries what the delivery target has requested
\*   plan     what get_prio_deliver_target / get_prio_fetch_target find
Energies == {"empty", "some", "full"}
Wheres == {"near", "room", "visible", "hidden"}
Supplies == {"gone", "far", "near", "taken"}
Providers == {"Err", "None", "Some"}
Plans == {"None", "Delivering", "FetchStore", "FetchDropped"}

InRoom(see) == see.where \in {"near", "room"}

\* the findings that bear on the do_job of citizen c: those that its job and
\* task never look at stay at one value
SightsFor(c) ==
    LET worker == c.race = "Worker"
        energy == c.task.kind \in {"Build", "UpgradeController", "FetchForConsumer"}
                  \/ (c.race = "Carrier" /\ c.job.kind = "RoomLogistics")
        getter == c.task.kind \in {"Build", "UpgradeController"}
                  \/ (worker /\ c.job.kind \in {"BootstrapRoom", "UpgradeController"})
        fetch == c.task.kind = "FetchForConsumer"
    IN  {see \in [energy : IF energy THEN Energies ELSE {"some"},
                  where : Wheres,
                  object : BOOLEAN,
                  supply : IF getter THEN Supplies ELSE {"gone"},
                  provider : IF getter THEN Providers ELSE {"None"},
                  site : IF worker /\ c.job.kind = "BootstrapRoom" THEN BOOLEAN ELSE {FALSE},
                  under : IF fetch /\ c.task.from = "Dropped" THEN BOOLEAN ELSE {FALSE},
                  enough : IF fetch THEN BOOLEAN ELSE {FALSE},
                  plan : IF c.race = "Carrier" /\ c.job.kind = "RoomLogistics"
                         THEN Plans ELSE {"None"}] :
            /\ see.object => see.where # "hidden"
            /\ see.enough => see.energy # "empty"
            /\ see.plan = "Delivering" => see.energy # "empty"}

\* the result of a run: Err or a OokTaskRunnableResult, with the task as the
\* call leaves it
Ran(res, task) == [res |-> res, task |-> task]

\* calc_resource_provider of build::Task: the room of the build target has
\* to be visible
BuildCalc(see) == IF see.where = "hidden" THEN "Err" ELSE see.provider

\* a precheck that goes for energy whether or not a provider was found
GetterPrecheckUnprovided(task, see, work, calc) ==
    CASE task.step = "GetEnergy" ->
            IF see.energy = "full" THEN Ran("Ok", [task EXCEPT !.step = work])
            ELSE Ran("Ok", task)
      [] task.step = work /\ see.energy # "empty" -> Ran("Ok", task)
      [] OTHER ->
            CASE calc = "Err" -> Ran("Err", task)
              [] OTHER -> Ran("Ok", [task EXCEPT !.step = "GetEnergy"])

\* precheck of build::Task and of upgrade_controller::Task: `work` is the
\* step that spends the energy (Build, Upgrade), `calc` what
\* calc_resource_provider returns
GetterPrecheck(task, see, work, calc) ==
    CASE task.step = "GetEnergy" ->
            IF see.energy = "full" THEN Ran("Ok", [task EXCEPT !.step = work])
            ELSE Ran("Ok", task)
      [] task.step = work /\ see.energy # "empty" -> Ran("Ok", task)
      [] OTHER ->
            CASE calc = "Err" -> Ran("Err", task)
              [] calc = "Some" -> Ran("Ok", [task EXCEPT !.step = "GetEnergy"])
              [] OTHER -> Ran("Ok", [task EXCEPT !.step = "WaitForResource"])

\* the GetEnergy step of build::Task and upgrade_controller::Task
GetEnergyStep(task, see, work) ==
    CASE see.supply = "gone" -> Ran("Err", task)
      [] see.supply = "taken" -> Ran("Continue", [task EXCEPT !.step = work])
      [] OTHER -> Ran("Continue", task)

\* a run of build::Task that goes on with a construction site that is gone
BuildRunKeepingOn(task, see) ==
    LET Run(pre) ==
            CASE pre.res = "Err" -> pre
              [] pre.task.step = "GetEnergy" -> GetEnergyStep(pre.task, see, "Build")
              [] OTHER -> Ran("Continue", pre.task)
    IN  With(GetterPrecheck(task, see, "Build", BuildCalc(see)), Run)

\* build::Task::run
BuildRun(task, see) ==
    LET Run(pre) ==
            CASE pre.res = "Err" -> pre
              [] pre.task.step = "GetEnergy" -> GetEnergyStep(pre.task, see, "Build")
              [] pre.task.step = "Build" ->
                    IF see.object THEN Ran("Continue", pre.task)
                    ELSE IF ~InRoom(see) THEN Ran("Continue", pre.task)
                    ELSE Ran("CancelAndDoAnother", pre.task)
              [] OTHER -> Ran("Continue", pre.task)
    IN  With(GetterPrecheck(task, see, "Build", BuildCalc(see)), Run)

\* a run of upgrade_controller::Task that gives the task up when the
\* controller is not there
UpgradeRunGivingUp(task, see) ==
    LET Run(pre) ==
            CASE pre.res = "Err" -> pre
              [] pre.task.step = "GetEnergy" -> GetEnergyStep(pre.task, see, "Upgrade")
              [] pre.task.step = "Upgrade" ->
                    IF see.where = "near" /\ ~see.object
                    THEN Ran("CancelAndDoAnother", pre.task)
                    ELSE Ran("Continue", pre.task)
              [] OTHER -> Ran("Continue", pre.task)
    IN  With(GetterPrecheck(task, see, "Upgrade", see.provider), Run)

\* upgrade_controller::Task::run
UpgradeRun(task, see) ==
    LET Run(pre) ==
            CASE pre.res = "Err" -> pre
              [] pre.task.step = "GetEnergy" -> GetEnergyStep(pre.task, see, "Upgrade")
              [] pre.task.step = "Upgrade" ->
                    IF see.where = "near" /\ ~see.object THEN Ran("Err", pre.task)
                    ELSE Ran("Continue", pre.task)
              [] OTHER -> Ran("Continue", pre.task)
    IN  With(GetterPrecheck(task, see, "Upgrade", see.provider), Run)

\* precheck of farm::Task
FarmPrecheck(task, see) ==
    IF task.step = "Walk" /\ see.where = "near"
    THEN [task EXCEPT !.step = "Harvest"]
    ELSE task

\* farm::Task::run
FarmRun(task, see) ==
    LET Run(pre) ==
            IF pre.step = "Harvest"
            THEN IF ~see.object THEN Ran("Err", pre)
                 ELSE IF see.where # "near"
                      THEN Ran("Continue", [pre EXCEPT !.step = "Walk"])
                      ELSE Ran("Continue", pre)
            ELSE Ran("Continue", pre)
    IN  With(FarmPrecheck(task, see), Run)

\* a run of fetch_for_consumer::Task that goes on delivering until the
\* creep has handed over what was requested
FetchRunUntilProvided(task, see) ==
    LET pre == IF task.step = "Fetching" /\ (see.energy = "full" \/ see.enough)
               THEN [task EXCEPT !.step = "Delivering", !.from = "-"]
               ELSE task
    IN  CASE task.step = "Delivering" /\ see.energy = "empty" -> Ran("Finish", task)
          [] see.where # "near" -> Ran("Continue", pre)
          [] pre.step = "Fetching" /\ pre.from = "Store" ->
                IF see.object THEN Ran("Continue", pre) ELSE Ran("Err", pre)
          [] pre.step = "Fetching" ->
                IF see.object \/ see.under THEN Ran("Continue", pre)
                ELSE Ran("CancelAndDoAnother", pre)
          [] OTHER ->
                IF ~see.object THEN Ran("Err", pre)
                ELSE IF see.enough THEN Ran("Finish", pre)
                ELSE Ran("Continue", pre)

\* fetch_for_consumer::Task::run; `provided` stays 0 as long as the task
\* lives, since every transfer ends the task
FetchRun(task, see) ==
    LET pre == IF task.step = "Fetching" /\ (see.energy = "full" \/ see.enough)
               THEN [task EXCEPT !.step = "Delivering", !.from = "-"]
               ELSE task
    IN  CASE task.step = "Delivering" /\ see.energy = "empty" -> Ran("Finish", task)
          [] see.where # "near" -> Ran("Continue", pre)
          [] pre.step = "Fetching" /\ pre.from = "Store" ->
                IF see.object THEN Ran("Continue", pre) ELSE Ran("Err", pre)
          [] pre.step = "Fetching" ->
                IF see.object \/ see.under THEN Ran("Continue", pre)
                ELSE Ran("CancelAndDoAnother", pre)
          [] OTHER ->
                IF see.object THEN Ran("Finish", pre) ELSE Ran("Err", pre)

\* Task::new of build::Task and of upgrade_controller::Task: the task starts
\* in WaitForResource and is prechecked; an Err leaves the creep without task
NewGetter(kind, see, work, calc) ==
    LET New(pre) == IF pre.res = "Err" THEN Ran("Err", NoTask) ELSE pre
    IN  With(GetterPrecheck(Task(kind, "WaitForResource", "-"), see, work, calc), New)

\* the `None` arm of OokCreepWorker::do_job: the task the job gives
WorkerDerive(c, see) ==
    CASE c.job.kind = "UpgradeController" ->
            IF see.where = "hidden" \/ ~see.object THEN Ran("Err", NoTask)
            ELSE NewGetter("UpgradeController", see, "Upgrade", see.provider)
      [] c.job.kind = "BootstrapRoom" ->
            IF ~InRoom(see) THEN Ran("Ok", NoTask)
            ELSE IF see.site THEN NewGetter("Build", see, "Build", BuildCalc(see))
            ELSE NewGetter("UpgradeController", see, "Upgrade", see.provider)
      [] c.job.kind = "FarmSource" ->
            IF see.object /\ InRoom(see)
            THEN Ran("Ok", FarmPrecheck(Task("FarmSource", "Walk", "-"), see))
            ELSE Ran("Ok", NoTask)
      [] OTHER -> Ran("Err", NoTask)

\* the `None` arm of OokCreepCarrier::do_job: the Result of
\* assign_task_for_room_logistics is dropped; the room of this model has no
\* open suppliers reach point, so that the task comes from new_run
CarrierDerive(c, see) ==
    IF c.job.kind = "RoomLogistics"
    THEN CASE see.where = "hidden" -> Ran("Ok", NoTask)
           [] see.plan = "Delivering" -> Ran("Ok", Task("FetchForConsumer", "Delivering", "-"))
           [] see.plan = "FetchStore" -> Ran("Ok", Task("FetchForConsumer", "Fetching", "Store"))
           [] see.plan = "FetchDropped" ->
                 Ran("Ok", Task("FetchForConsumer", "Fetching", "Dropped"))
           [] OTHER -> Ran("Ok", NoTask)
    ELSE Ran("Err", NoTask)

\* the `Some(task)` arm of do_job up to run_result: the race runs the tasks
\* it handles and bails for the others
RunTask(c, see) ==
    CASE c.race = "Worker" /\ c.task.kind = "UpgradeController" -> UpgradeRun(c.task, see)
      [] c.race = "Worker" /\ c.task.kind = "Build" -> BuildRun(c.task, see)
      [] c.race = "Worker" /\ c.task.kind = "FarmSource" -> FarmRun(c.task, see)
      [] c.race = "Carrier" /\ c.task.kind = "FetchForConsumer" -> FetchRun(c.task, see)
      [] OTHER -> Ran("Err", c.task)

\* what a do_job call comes to: whether it returned Ok, the citizen as it
\* leaves it, what run returned (None: no task was run), the number of times
\* a task was derived from the job and the number of do_job calls made
Done(ok, c, ran, derived, calls) ==
    [ok |-> ok, citizen |-> c, ran |-> ran, derived |-> derived, calls |-> calls]

\* a do_job that derives a task again when the task has finished
RECURSIVE DoJobDerivingOnFinish(_, _)
DoJobDerivingOnFinish(c, see) ==
    IF c.task = NoTask
    THEN LET d == IF c.race = "Worker" THEN WorkerDerive(c, see) ELSE CarrierDerive(c, see)
         IN  [ok |-> d.res = "Ok", citizen |-> [c EXCEPT !.task = d.task],
              ran |-> "None", derived |-> 1, calls |-> 1]
    ELSE LET r == RunTask(c, see)
         IN  CASE r.res = "Err" ->
                    [ok |-> FALSE, citizen |-> [c EXCEPT !.task = r.task],
                     ran |-> "Err", derived |-> 0, calls |-> 1]
               [] r.res = "Continue" ->
                    [ok |-> TRUE, citizen |-> [c EXCEPT !.task = r.task],
                     ran |-> "Continue", derived |-> 0, calls |-> 1]
               [] OTHER ->
                    LET again == DoJobDerivingOnFinish([c EXCEPT !.task = NoTask], see)
                    IN  [again EXCEPT !.ran = r.res, !.calls = @ + 1]

\* OokCreepWorker::do_job / OokCreepCarrier::do_job
RECURSIVE DoJob(_, _)
DoJob(c, see) ==
    LET Derived(d) == Done(d.res = "Ok", [c EXCEPT !.task = d.task], "None", 1, 1)
        Again(r, again) == [again EXCEPT !.ran = r.res, !.calls = @ + 1]
        Matched(r) ==
            CASE r.res = "Err" -> Done(FALSE, [c EXCEPT !.task = r.task], "Err", 0, 1)
              [] r.res = "Continue" ->
                    Done(TRUE, [c EXCEPT !.task = r.task], "Continue", 0, 1)
              [] r.res = "Finish" ->
                    Done(TRUE, [c EXCEPT !.task = NoTask], "Finish", 0, 1)
              [] OTHER -> Again(r, DoJob([c EXCEPT !.task = NoTask], see))
    IN  IF c.task = NoTask
        THEN With(IF c.race = "Worker" THEN WorkerDerive(c, see) ELSE CarrierDerive(c, see),
                  Derived)
        ELSE With(RunTask(c, see), Matched)

\* ---------------------------------------------------- the do_job loop
\* the creeps followed at their jobs: a worker and a carrier
WorkerName == UniqId(0, 0)
CarrierName == UniqId(0, 1)

\* the jobs their memory can hold: jobs their race handles and one it does
\* not
WorkerJobs == {BootstrapRoomJob, FarmSourceJob("sA"), UpgradeControllerJob,
               MaintainStructuresJob}
CarrierJobs == {RoomLogisticsJob, MaintainStructuresJob}

\* get_all_citizens_from_creeps for creeps that are not cached: OokRace
\* try_from the memory of the creep, without task
CitizensFromCreeps(wjob, cjob) ==
    (WorkerName :> OokRace("Worker", wjob, NoTask)) @@
    (CarrierName :> OokRace("Carrier", cjob, NoTask))

\* construct_context, with the creeps followed at their jobs
TaskInit ==
    \E wjob \in WorkerJobs : \E cjob \in CarrierJobs :
        /\ ConstructContext([r \in Rooms |-> IF r = "W1N1" THEN <<"sA">> ELSE <<"sC">>],
                            [r \in Rooms |-> IF r = "W1N1" THEN "Base" ELSE "SetupBase"],
                            <<>>,
                            {Creep(WorkerName, wjob), Creep(CarrierName, cjob)})
        /\ NoFilling
        /\ citizen_tasks = CitizensFromCreeps(wjob, cjob)
        /\ local_citizens = EmptyMap
        /\ job_queue = <<>>
        /\ jobs_ran = EmptyMap
        /\ job_log = EmptyMap

\* what the do_job loop leaves alone
JobsFrame == UNCHANGED <<calcVars, found_sources, memory, time, ticksRun, errors, in_tick_unique_id, world,
                         alive, spawning, citizens, room_states, requests,
                         handled_requests, run_returned, room_requests, updated,
                         room_state_updates, last_spawn>>

\* main.rs run, lines 120-129 and 633: every creep is cached, so that the
\* local citizens are state.citizens; the loop iterates them in some order
StartJobs ==
    /\ pc = "idle"
    /\ local_citizens' = citizen_tasks
    /\ \E ord \in Perms(DOMAIN citizen_tasks) : job_queue' = ord
    /\ jobs_ran' = EmptyMap
    /\ job_log' = EmptyMap
    /\ pc' = "jobs"
    /\ UNCHANGED citizen_tasks
    /\ JobsFrame

\* a loop that leaves the tick at the first do_job that fails
DoJobsUntilError ==
    /\ pc = "jobs"
    /\ \E id \in {Head(job_queue)} :
       \E see \in SightsFor(local_citizens[id]) :
       \E done \in {DoJob(local_citizens[id], see)} :
          /\ local_citizens' = [local_citizens EXCEPT ![id] = done.citizen]
          /\ jobs_ran' = (id :> (IF done.ok THEN "Ok" ELSE "Err")) @@ jobs_ran
          /\ job_log' = [creep |-> id, before |-> local_citizens[id].task,
                         object |-> see.object, in_room |-> InRoom(see),
                         energy |-> see.energy,
                         supply_gone |-> see.supply = "gone",
                         see |-> see,
                         ok |-> done.ok, ran |-> done.ran,
                         derived |-> done.derived, calls |-> done.calls]
          /\ job_queue' = IF done.ok THEN Tail(job_queue) ELSE <<>>
          /\ pc' = IF done.ok /\ Len(job_queue) > 1 THEN "jobs"
                   ELSE IF done.ok THEN "assign" ELSE "idle"
    /\ UNCHANGED citizen_tasks
    /\ JobsFrame

\* one iteration of the loop of main.rs run, lines 633-651: do_job of the
\* next citizen; an Err is logged and the loop goes on; after the last
\* citizen the tick is at the assignment (line 654)
DoJobs ==
    /\ pc = "jobs"
    /\ \E id \in {Head(job_queue)} :
       \E see \in SightsFor(local_citizens[id]) :
       \E done \in {DoJob(local_citizens[id], see)} :
          /\ local_citizens' = [local_citizens EXCEPT ![id] = done.citizen]
          /\ jobs_ran' = MapInsert(jobs_ran, id, IF done.ok THEN "Ok" ELSE "Err")
          /\ job_log' = [creep |-> id, before |-> local_citizens[id].task,
                         object |-> see.object, in_room |-> InRoom(see),
                         energy |-> see.energy,
                         supply_gone |-> see.supply = "gone",
                         see |-> see,
                         ok |-> done.ok, ran |-> done.ran,
                         derived |-> done.derived, calls |-> done.calls]
    /\ job_queue' = Tail(job_queue)
    /\ pc' = IF Len(job_queue) > 1 THEN "jobs" ELSE "assign"
    /\ UNCHANGED citizen_tasks
    /\ JobsFrame

\* main.rs run, lines 654-705, for the citizens: the passes that follow the
\* loop return and `state.citizens = citizens` stores what do_job left
StoreCitizens ==
    /\ pc = "assign"
    /\ citizen_tasks' = local_citizens
    /\ pc' = "idle"
    /\ UNCHANGED <<local_citizens, job_queue, jobs_ran, job_log>>
    /\ JobsFrame

\* main.rs run, lines 659 and 700, for the citizens: a `?` of the passes
\* that follow the loop ends the tick and the local citizens are dropped
DropCitizens ==
    /\ pc = "assign"
    /\ pc' = "idle"
    /\ UNCHANGED <<citizen_tasks, local_citizens, job_queue, jobs_ran, job_log>>
    /\ JobsFrame

TaskNext ==
    \/ StartJobs
    \/ DoJobs
    \/ StoreCitizens
    \/ DropCitizens

TaskSpec == TaskInit /\ [][TaskNext]_vars

\* construct_context with one creep, a worker whose job is BootstrapRoom
LoneWorkerInit ==
    /\ ConstructContext([r \in Rooms |-> IF r = "W1N1" THEN <<"sA">> ELSE <<"sC">>],
                        [r \in Rooms |-> IF r = "W1N1" THEN "Base" ELSE "SetupBase"],
                        <<>>,
                        {Creep(WorkerName, BootstrapRoomJob)})
    /\ NoFilling
    /\ citizen_tasks = (WorkerName :> OokRace("Worker", BootstrapRoomJob, NoTask))
    /\ local_citizens = EmptyMap
    /\ job_queue = <<>>
    /\ jobs_ran = EmptyMap
    /\ job_log = EmptyMap

\* ticks in which the passes that follow the loop return Ok
LoneWorkerNext ==
    \/ StartJobs
    \/ DoJobs
    \/ StoreCitizens

\* the game calls the loop in every tick and a tick runs to its end: the
\* lone worker is at its job tick after tick
LoneWorkerSpec ==
    /\ LoneWorkerInit
    /\ [][LoneWorkerNext]_vars
    /\ WF_vars(StartJobs)
    /\ WF_vars(DoJobs)
    /\ WF_vars(StoreCitizens)

\* ------------------------------------------- filling spawns and extensions
\* the carriers of a Base room, whose job is RoomLogistics
Carriers == {"c1", "c2"}

\* the room is a corridor: the provider of energy is at position 0, the
\* suppliers reach points are at the positions 1..MaxPoint, a path is as
\* long as the positions are apart
MaxPoint == 2
ReachPoints == 1..MaxPoint
Positions == 0..MaxPoint
PathLen(a, b) == IF a < b THEN b - a ELSE a - b

\* the energy a carrier can carry and the energy that fills the suppliers
\* of one reach point
CarryCapacity == 100
PointCapacity == 50

\* length of data.supplier_fillers up to which the creeps are followed
MaxFillers == 3

\* spawn_supplies_run::Task with its Step; NoFillTask is Option::None
FillTask(step, open, done) == [step |-> step, open |-> open, done |-> done]
NoFillTask == FillTask("None", <<>>, <<>>)

\* Task::handling_supplier_points
HandlingSupplierPoints(task) ==
    IF task.step = "FillSuppliers" THEN SeqToSet(task.open) \cup SeqToSet(task.done)
    ELSE {}

\* BaseState::get_open_suppliers_reach_points: the points to fill that no
\* listed filler handles, by the task that state.citizens has for it
GetOpenSuppliersReachPoints(points, fillers, stored) ==
    points \ UNION {HandlingSupplierPoints(stored[id]) : id \in SeqToSet(fillers)}

\* the loop of Task::fill_suppliers over closest_suppliers_point: the
\* routes it can come to (points equally far are sorted in any order);
\* closest_suppliers_point gives None when the closest point needs no energy
RECURSIVE FillRoutes(_, _, _)
FillRoutes(pos, energy_left, points) ==
    IF points = {} THEN {<<>>}
    ELSE LET closest == {p \in points :
                            \A q \in points : PathLen(pos, p) <= PathLen(pos, q)}
             From(p) ==
                 IF free_capacity[p] = 0 THEN {<<>>}
                 ELSE IF energy_left - free_capacity[p] <= 0 THEN {<<p>>}
                 ELSE {<<p>> \o rest :
                          rest \in FillRoutes(p, energy_left - free_capacity[p],
                                              points \ {p})}
         IN  UNION {From(p) : p \in closest}

\* what a creep is told to do in a tick
NoIntent == [kind |-> "none", at |-> 0]
Intent(kind, at) == [kind |-> kind, at |-> at]

\* what a do_job call works on and leaves behind: the task of the carrier,
\* the filler list of the room, the intent of the creep, what run returned
\* first, whether the creep was listed when that run returned, and the
\* route that fill_suppliers planned
Filling(task, fillers, intent, ran, listed, planned) ==
    [task |-> task, fillers |-> fillers, intent |-> intent, ran |-> ran,
     listed |-> listed, planned |-> planned]

\* BaseState::creep_done_handling_filling_extensions
CreepDoneHandlingFillingExtensions(fillers, c) ==
    LET Other(x) == x # c IN SelectSeq(fillers, Other)

\* Task::run of spawn_supplies_run when the precheck returns a result: it
\* is returned as it is
FillRunPrechecked(c, f) ==
    [f EXCEPT !.ran = "CancelAndDoAnother",
              !.listed = c \in SeqToSet(f.fillers)]

\* Task::fill_suppliers: the route becomes the open list of the step and
\* the creep is pushed on the filler list
FillSuppliers(c, f, route) ==
    [f EXCEPT !.task = FillTask("FillSuppliers", route, <<>>),
              !.fillers = Append(@, c),
              !.planned = <<route>>]

\* the arm of Step::FillSuppliers of Task::run
FillArm(c, f) ==
    LET open == f.task.open
        Returned(g, res) ==
            [g EXCEPT !.ran = res,
                      !.fillers = IF res = "Continue" THEN @
                                  ELSE CreepDoneHandlingFillingExtensions(@, c),
                      !.listed = IF res = "Continue" THEN c \in SeqToSet(g.fillers)
                                 ELSE FALSE]
    IN  IF open = <<>> THEN Returned(f, "Finish")
        ELSE IF carriers[c].pos # open[1]
        THEN Returned([f EXCEPT !.intent = Intent("move", open[1])], "Continue")
        ELSE IF free_capacity[open[1]] > 0
        THEN Returned([f EXCEPT !.intent = Intent("transfer", open[1])], "Continue")
        ELSE IF Len(open) > 1
        THEN Returned([f EXCEPT !.intent = Intent("move", open[2]),
                                !.task = FillTask("FillSuppliers", Tail(open),
                                                  Append(f.task.done, open[1]))],
                      "Continue")
        ELSE Returned([f EXCEPT !.task = FillTask("FillSuppliers", Tail(open),
                                                  Append(f.task.done, open[1]))],
                      "CancelAndDoAnother")

\* Task::run of spawn_supplies_run: precheck, then the arm of the step;
\* `route` is the route that fill_suppliers plans if it is called
FillRun(c, f, route) ==
    LET energy == carriers[c].energy
        step == f.task.step
    IN  CASE step = "FillSuppliers" /\ (energy = 0 \/ f.task.open = <<>>) ->
                FillRunPrechecked(c, f)
          [] step = "FillSuppliers" /\ energy # 0 /\ f.task.open # <<>> ->
                FillArm(c, f)
          [] step = "GetEnergy" /\ energy = CarryCapacity ->
                FillArm(c, FillSuppliers(c, f, route))
          [] step = "GetEnergy" /\ energy # CarryCapacity /\ carriers[c].pos <= 1 ->
                [FillSuppliers(c, [f EXCEPT !.intent = Intent("withdraw", 0)], route)
                    EXCEPT !.ran = "Continue", !.listed = TRUE]
          [] step = "GetEnergy" /\ energy # CarryCapacity /\ carriers[c].pos > 1 ->
                [f EXCEPT !.intent = Intent("move", 0), !.ran = "Continue",
                          !.listed = c \in SeqToSet(f.fillers)]

\* OokCreepCarrier::assign_task_for_room_logistics in a Base room: a
\* SpawnSuppliesRun when a reach point is open (Task::new, whose precheck
\* finds the provider), and no task otherwise (no delivery is asked for)
AssignTaskForRoomLogistics(f) ==
    IF GetOpenSuppliersReachPoints(suppliers_to_fill, f.fillers, citizen_tasks) # {}
    THEN [f EXCEPT !.task = FillTask("GetEnergy", <<>>, <<>>)]
    ELSE f

\* OokCreepCarrier::do_job for the tasks of this room
FillDoJob(c, route) ==
    LET f == Filling(local_citizens[c], supplier_fillers, NoIntent, "None", FALSE, <<>>)
    IN  IF f.task = NoFillTask THEN AssignTaskForRoomLogistics(f)
        ELSE LET g == FillRun(c, f, route)
             IN  CASE g.ran = "Continue" -> g
                   [] g.ran = "Finish" -> [g EXCEPT !.task = NoFillTask]
                   [] g.ran = "CancelAndDoAnother" ->
                         AssignTaskForRoomLogistics([g EXCEPT !.task = NoFillTask])

\* the carriers stand empty at the provider without a task, some reach
\* points are to be filled (update_suppliers has run when the room state was
\* loaded)
FillInit ==
    /\ NoCall
    /\ found_sources = [r \in Rooms |-> IF r = "W1N1" THEN <<"sA">> ELSE <<"sC">>]
    /\ time = 0
    /\ ticksRun = 0
    /\ errors = 0
    /\ pc = "idle"
    /\ in_tick_unique_id = 0
    /\ world = QuietWorld
    /\ spawning = {}
    /\ alive = {}
    /\ citizens = {}
    /\ memory = [r \in Rooms |-> Persisted("Base", <<>>, TargetSpawnsMem)]
    /\ room_states = [r \in Rooms |-> LoadFromMemory(r, "Base", <<>>)]
    /\ requests = EmptyMap
    /\ handled_requests = EmptyMap
    /\ run_returned = [r \in Rooms |-> <<>>]
    /\ room_requests = EmptyMap
    /\ updated = {}
    /\ room_state_updates = {}
    /\ last_spawn = [r \in Rooms |-> [id |-> NoName, outcome |-> "none"]]
    /\ citizen_tasks = [c \in Carriers |-> NoFillTask]
    /\ local_citizens = [c \in Carriers |-> NoFillTask]
    /\ job_queue = <<>>
    /\ jobs_ran = EmptyMap
    /\ job_log = EmptyMap
    /\ supplier_fillers = <<>>
    /\ free_capacity \in [ReachPoints -> {0, PointCapacity}]
    /\ suppliers_to_fill = {p \in ReachPoints : free_capacity[p] # 0}
    /\ carriers = [c \in Carriers |-> [pos |-> 0, energy |-> 0]]
    /\ intents = [c \in Carriers |-> NoIntent]

\* what the filling leaves alone
FillFrame == UNCHANGED <<args, ret, found_sources, memory, time, ticksRun, errors,
                         in_tick_unique_id, world, alive, spawning, citizens,
                         room_states, requests, handled_requests, run_returned,
                         room_requests, updated, room_state_updates, last_spawn,
                         jobs_ran>>

\* main.rs run, lines 120-129: the citizens of the tick are those of
\* state.citizens, with their tasks; the loop iterates them in some order
FillStartTick ==
    /\ pc = "idle"
    /\ pc' = "jobs"
    /\ local_citizens' = citizen_tasks
    /\ \E ord \in Perms(Carriers) : job_queue' = ord
    /\ job_log' = EmptyMap
    /\ intents' = [c \in Carriers |-> NoIntent]
    /\ UNCHANGED <<citizen_tasks, supplier_fillers, suppliers_to_fill, free_capacity,
                   carriers>>
    /\ FillFrame

\* the points that the tasks of the listed fillers other than c hold now
TakenByOthers(c, fillers, tasks) ==
    UNION {HandlingSupplierPoints(tasks[id]) : id \in SeqToSet(fillers) \ {c}}

\* main.rs run, lines 629-647: do_job of the next carrier
FillJob ==
    /\ pc = "jobs"
    /\ job_queue # <<>>
    /\ \E c \in {Head(job_queue)} :
       \E open \in {GetOpenSuppliersReachPoints(suppliers_to_fill, supplier_fillers,
                                                 citizen_tasks)} :
       \E route \in FillRoutes(carriers[c].pos, carriers[c].energy, open) :
       \E g \in {FillDoJob(c, route)} :
          /\ Len(g.fillers) <= MaxFillers
          /\ local_citizens' = [local_citizens EXCEPT ![c] = g.task]
          /\ supplier_fillers' = g.fillers
          /\ intents' = [intents EXCEPT ![c] = g.intent]
          /\ job_log' = MapInsert(job_log, c,
                            [ran |-> g.ran, listed |-> g.listed, planned |-> g.planned,
                             open |-> open, pos |-> carriers[c].pos,
                             energy |-> carriers[c].energy,
                             taken |-> TakenByOthers(c, supplier_fillers,
                                                     local_citizens)])
    /\ job_queue' = Tail(job_queue)
    /\ UNCHANGED <<pc, citizen_tasks, suppliers_to_fill, free_capacity, carriers>>
    /\ FillFrame

\* BaseState::check_supplier_fillers: the fillers whose task in
\* state.citizens is a SpawnSuppliesRun stay listed
CheckSupplierFillers(fillers, stored) ==
    LET Filling_(id) == stored[id] # NoFillTask IN SelectSeq(fillers, Filling_)

\* the game carries out the intents of the creeps in the order `ord`: a
\* creep moves one step, withdraws to its capacity, or transfers what it
\* has as far as the point takes it
RECURSIVE CarryOut(_, _, _)
CarryOut(game, ord, i) ==
    IF i > Len(ord) THEN game
    ELSE LET c == ord[i]
             it == intents[c]
             at == game.carriers[c]
             amount == IF at.energy < game.free[it.at] THEN at.energy
                       ELSE game.free[it.at]
             next ==
                 CASE it.kind = "move" ->
                        [game EXCEPT !.carriers[c].pos =
                            IF @ < it.at THEN @ + 1 ELSE IF @ > it.at THEN @ - 1 ELSE @]
                   [] it.kind = "withdraw" ->
                        [game EXCEPT !.carriers[c].energy = CarryCapacity]
                   [] it.kind = "transfer" ->
                        [game EXCEPT !.carriers[c].energy = @ - amount,
                                     !.free[it.at] = @ - amount]
                   [] OTHER -> game
         IN  CarryOut(next, ord, i + 1)

\* main.rs run, lines 665-705, and the end of the tick in the game: the
\* filler list is checked against state.citizens, the points to fill are
\* updated or not (update_suppliers runs when a request was handled), the
\* citizens of the tick are stored; the game carries out the intents and
\* the spawns use up the energy of some points
FillEndTick ==
    /\ pc = "jobs"
    /\ job_queue = <<>>
    /\ pc' = "idle"
    /\ supplier_fillers' = CheckSupplierFillers(supplier_fillers, citizen_tasks)
    /\ suppliers_to_fill' \in
           {suppliers_to_fill, {p \in ReachPoints : free_capacity[p] # 0}}
    /\ citizen_tasks' = local_citizens
    /\ \E ord \in Perms(Carriers) : \E used \in SUBSET ReachPoints :
       \E game \in {CarryOut([carriers |-> carriers, free |-> free_capacity], ord, 1)} :
          /\ carriers' = game.carriers
          /\ free_capacity' = [p \in ReachPoints |->
                                  IF p \in used THEN PointCapacity ELSE game.free[p]]
    /\ UNCHANGED <<local_citizens, job_queue, job_log, intents>>
    /\ FillFrame

FillNext ==
    \/ FillStartTick
    \/ FillJob
    \/ FillEndTick

FillSpec == FillInit /\ [][FillNext]_vars

\* ------------------------------------------------ the assignment, on its own
\* the rooms of a corner of the world map, by their coordinates, and the
\* difference `target - room` of two RoomNames
MaxCoord == 1
CalcRooms == (0..MaxCoord) \X (0..MaxCoord)
RoomDiff(a, b) == <<a[1] - b[1], a[2] - b[2]>>

\* ((n as f32).sqrt().round()) as i32 for a small n >= 0: the root of an
\* integer is never half way between two integers
RoundSqrt(n) ==
    IF n = 0 THEN 0
    ELSE CHOOSE k \in 1..n : k * k - k < n /\ n <= k * k + k

\* the sort key of get_helping_room_for_request
LinearLen(target, a) ==
    LET d == RoomDiff(target, a)
    IN  RoundSqrt(d[1] * d[1] + d[2] * d[2])

\* a sort key that is the squared length, not rounded
LinearLenExact(target, a) ==
    LET d == RoomDiff(target, a)
    IN  d[1] * d[1] + d[2] * d[2]

\* the requests of both kinds
MaxRequests == 2
CalcRequest(n, kind, room, panic) ==
    [request_id |-> UniqId(1, n), kind |-> kind, target_room_name |-> room,
     resolve_panic |-> panic]
CalcRequestsAt(n) ==
    {CalcRequest(n, "Citizen", room, panic) : room \in CalcRooms, panic \in BOOLEAN}
        \cup {CalcRequest(n, "BootstrapWorkerCitizen", room, FALSE) : room \in CalcRooms}

\* the pending maps with 1..MaxRequests requests
CalcRequestMaps ==
    UNION {{[id \in {UniqId(1, n) : n \in 1..k} |-> pick[id[2]]] :
               pick \in {f \in [1..k -> UNION {CalcRequestsAt(n) : n \in 1..k}] :
                            \A n \in 1..k : f[n] \in CalcRequestsAt(n)}} :
           k \in 1..MaxRequests}

\* the room states there can be: some rooms have one, of either kind
CalcRoomStates ==
    UNION {[seen -> {"Base", "SetupBase"}] : seen \in SUBSET CalcRooms}

\* get_helping_room_for_request: the rooms that can come first when the Base
\* rooms are sorted (unstably) by their key; no room for a Citizen request
RoomsAbleToHelp(states) == {r \in DOMAIN states : states[r] = "Base"}
GetHelpingRoomForRequest(states, q) ==
    IF q.kind = "BootstrapWorkerCitizen"
    THEN {r \in RoomsAbleToHelp(states) :
            \A b \in RoomsAbleToHelp(states) :
                LinearLen(q.target_room_name, r) <= LinearLen(q.target_room_name, b)}
    ELSE {}

\* one iteration of the loop of assign_requests; `help` is the room that
\* get_helping_room_for_request returns for the request, if it returns one
AssignRequest(states, handlers, q, help) ==
    LET room == q.target_room_name
    IN  IF room \in DOMAIN states
        THEN IF q.kind = "Citizen" /\ states[room] = "SetupBase"
                   /\ room \in DOMAIN handlers
                   /\ handlers[room].kind = "Citizen" /\ handlers[room].resolve_panic
             THEN handlers
             ELSE MapInsert(handlers, room, q)
        ELSE IF q.kind = "BootstrapWorkerCitizen" /\ help # <<>>
             THEN MapInsert(handlers, help[1], q)
             ELSE handlers

\* assign_requests over the pending map iterated in the order `ord`
RECURSIVE AssignAll(_, _, _, _, _, _)
AssignAll(states, reqs, handlers, ord, helps, i) ==
    IF i > Len(ord) THEN handlers
    ELSE LET Rest(h) == AssignAll(states, reqs, h, ord, helps, i + 1)
         IN  With(AssignRequest(states, handlers, reqs[ord[i]], helps[ord[i]]), Rest)

\* what get_helping_room_for_request can return for each request: Some of
\* a room or None
HelpsFor(states, reqs) ==
    {h \in [DOMAIN reqs -> {<<>>} \cup {<<r>> : r \in CalcRooms}] :
        \A id \in DOMAIN reqs :
            LET able == GetHelpingRoomForRequest(states, reqs[id])
            IN  IF able = {} THEN h[id] = <<>> ELSE h[id] \in {<<r>> : r \in able}}

\* assign_requests is applied to some room states and some pending requests
CallAssignRequests ==
    /\ NoCall
    /\ \E states \in CalcRoomStates : \E reqs \in CalcRequestMaps :
       \E ord \in Perms(DOMAIN reqs) : \E helps \in HelpsFor(states, reqs) :
          /\ args' = [fn |-> "assign_requests", room_states |-> states, requests |-> reqs]
          /\ ret' = AssignAll(states, reqs, EmptyMap, ord, helps, 1)
    /\ UNCHANGED <<taskVars, found_sources, memory, time, ticksRun, errors, pc,
                   in_tick_unique_id, world, alive, spawning, citizens, room_states,
                   requests, handled_requests, run_returned, room_requests, updated,
                   room_state_updates, last_spawn, supplier_fillers, suppliers_to_fill,
                   free_capacity, carriers, intents>>

\* the context is constructed and functions of the program are applied to
\* arguments of their own
CalcInit ==
    /\ ConstructContext([r \in Rooms |-> IF r = "W1N1" THEN <<"sA">> ELSE <<"sC">>],
                        [r \in Rooms |-> IF r = "W1N1" THEN "Base" ELSE "SetupBase"],
                        <<>>, {})
    /\ TasksIdle

AssignNext == CallAssignRequests
AssignSpec == CalcInit /\ [][AssignNext]_vars

\* ------------------------------------------------- the ledger, on its own
\* what the calls on the ledger leave alone
LedgerFrame == UNCHANGED <<taskVars, found_sources, memory, errors, pc, world, alive,
                           spawning, citizens, room_states, run_returned,
                           room_requests, updated, room_state_updates, last_spawn,
                           supplier_fillers, suppliers_to_fill, free_capacity,
                           carriers, intents>>

\* ticks over which the ledger is followed
MaxLedgerTicks == 1

\* the requests that a caller can hold in this tick: made in this tick or
\* in an earlier one
LedgerRequests ==
    {NewRequest(t, n, "W1N1", RoomLogisticsJob, FALSE) :
        t \in 0..time, n \in 1..MaxRequests}

\* add_request is applied to a request that Request::new has just made: its
\* id is the next one of the tick
CallAddRequest ==
    /\ in_tick_unique_id < MaxRequests
    /\ \E q \in {NewRequest(time, in_tick_unique_id + 1, "W1N1", RoomLogisticsJob, FALSE)} :
          /\ args' = [fn |-> "add_request", request |-> q]
          /\ requests' = AddRequest(requests, q)
    /\ ret' = "Ok"
    /\ in_tick_unique_id' = in_tick_unique_id + 1
    /\ UNCHANGED <<handled_requests, time, ticksRun>>
    /\ LedgerFrame

\* request_handled is applied to some request, pending or not, with either
\* option
CallRequestHandled ==
    /\ \E q \in LedgerRequests : \E delay \in {0, 1} :
       \E st \in {RequestHandled([requests |-> requests,
                                  handled_requests |-> handled_requests], q, delay)} :
          /\ args' = [fn |-> "request_handled", request |-> q, delay |-> delay]
          /\ requests' = st.requests
          /\ handled_requests' = st.handled_requests
    /\ ret' = "Ok"
    /\ UNCHANGED <<in_tick_unique_id, time, ticksRun>>
    /\ LedgerFrame

\* the next tick begins
LedgerTick ==
    /\ ticksRun < MaxLedgerTicks
    /\ time' = time + 1
    /\ ticksRun' = ticksRun + 1
    /\ in_tick_unique_id' = 0
    /\ args' = [fn |-> "next_tick"]
    /\ ret' = "Ok"
    /\ UNCHANGED <<requests, handled_requests>>
    /\ LedgerFrame

LedgerNext ==
    \/ CallAddRequest
    \/ CallRequestHandled
    \/ LedgerTick

LedgerSpec == CalcInit /\ [][LedgerNext]_vars

\* ---------------------------------------------- the scoring, on its own
\* the kinds of ResourceProvider
ProviderKinds == {"EnergyFarm", "SourceDump", "BufferControllerUpgrade",
                  "LongTermStorage", "TerminalOverflow", "Unknown"}
StoreKinds == ProviderKinds \ {"EnergyFarm"}

\* the length of the path from a provider to the creep
MaxPath == 3

\* the energy a provider holds, on both sides of every step of the curves
\* (of a TerminalOverflow: what it holds above TERMINAL_TRADE_BUFFER)
Amounts == {0, 1, 99, 100, 102, 103, 499, 500, 549, 550, 19999, 20000, 50000}
Overflows == {0 - 1, 0, 1000, 1001, 70000}

\* a provider as the scoring sees it: its kind, what its object holds,
\* the path to it, and whether get_object_typed still finds its object
Provider(kind, amount, path, found) ==
    [kind |-> kind, amount |-> amount, path |-> path, found |-> found]
ScoredProviders ==
    {Provider(kind, amount, path, found) :
        kind \in ProviderKinds \ {"TerminalOverflow"}, amount \in Amounts,
        path \in 0..MaxPath, found \in BOOLEAN}
      \cup {Provider("TerminalOverflow", amount, path, found) :
                amount \in Overflows, path \in 0..MaxPath, found \in BOOLEAN}

\* (n as f32 / d).round() as i32 for n >= 0: half way rounds away from zero
RoundDiv(n, d) == (2 * n + d) \div (2 * d)

\* Result<Option<i32>, _>
PointsErr == [tag |-> "Err"]
PointsNone == [tag |-> "None"]
PointsSome(points) == [tag |-> "Some", points |-> points]

\* a SourceDump arm that keeps the 200 points of an empty dump
SourceDumpPointsKeeping(amount) ==
    IF amount = 0 THEN 200
    ELSE IF amount < 100 THEN 200 - amount
    ELSE IF amount < 500 THEN 200 - RoundDiv(amount, 5)
    ELSE 200 + RoundDiv(amount, 100)

\* generic_working_providers_points, the arm of SourceDump up to the path:
\* `points += 200` and the "poor man's curve"
SourceDumpPoints(amount) ==
    IF amount = 0 THEN 0
    ELSE IF amount < 100 THEN 200 - amount
    ELSE IF amount < 500 THEN 200 - RoundDiv(amount, 5)
    ELSE 200 + RoundDiv(amount, 100)

\* the arm of BufferControllerUpgrade up to the path
BufferPoints(amount) ==
    IF amount = 0 THEN 0
    ELSE IF amount < 100 THEN 200 - amount
    ELSE IF amount < 500 THEN 200 - (50 - RoundDiv(amount, 5))
    ELSE 200 + RoundDiv(amount, 100)

\* the arm of LongTermStorage up to the path
LongTermPoints(amount) == IF amount < 20000 THEN 1 ELSE 200

\* the arm of TerminalOverflow up to the path
TerminalPoints(overflow) ==
    IF overflow < 0 THEN 0 - 100
    ELSE IF overflow > 1000
    THEN 150 + (IF RoundDiv(overflow, 10000) > 5 THEN RoundDiv(overflow, 10000) ELSE 5)
    ELSE 150

\* generic_working_providers_points
GenericWorkingProvidersPoints(prov) ==
    CASE prov.kind = "Unknown" -> PointsNone
      [] prov.kind # "Unknown" /\ ~prov.found -> PointsErr
      [] prov.kind = "EnergyFarm" /\ prov.found -> PointsSome(100 - prov.path)
      [] prov.kind = "SourceDump" /\ prov.found ->
            PointsSome(SourceDumpPoints(prov.amount) - prov.path * 3)
      [] prov.kind = "BufferControllerUpgrade" /\ prov.found ->
            PointsSome(BufferPoints(prov.amount) - prov.path * 3)
      [] prov.kind = "LongTermStorage" /\ prov.found ->
            PointsSome(LongTermPoints(prov.amount) - prov.path * 3)
      [] prov.kind = "TerminalOverflow" /\ prov.found ->
            PointsSome(TerminalPoints(prov.amount) - prov.path * 3)

\* generic_working_providers_points is applied to some provider
CallPoints ==
    /\ NoCall
    /\ \E prov \in ScoredProviders :
          /\ args' = [fn |-> "generic_working_providers_points", prov |-> prov]
          /\ ret' = GenericWorkingProvidersPoints(prov)
    /\ UNCHANGED <<taskVars, found_sources, memory, time, ticksRun, errors, pc,
                   in_tick_unique_id, world, alive, spawning, citizens, room_states,
                   requests, handled_requests, run_returned, room_requests, updated,
                   room_state_updates, last_spawn, supplier_fillers, suppliers_to_fill,
                   free_capacity, carriers, intents>>

\* ------------------------------------------- the selection of a provider
\* a creep as creep_can_use sees it: has it active WORK parts, active CARRY
\* parts
Bodies == [work : BOOLEAN, carry : BOOLEAN]

\* a creep_can_use that asks for CARRY parts whatever the provider
CreepCanUseCarrying(prov, creep) == creep.carry

\* ResourceProvider::creep_can_use: ResourceFarmData asks for WORK parts,
\* RoomObjectData and StructureData ask for CARRY parts
CreepCanUse(prov, creep) ==
    IF prov.kind = "EnergyFarm" THEN creep.work ELSE creep.carry

\* `.unwrap_or(Some(-10000)).unwrap_or(-10000)`
NoPoints == 0 - 10000
PointsOr(res) == IF res.tag = "Some" THEN res.points ELSE NoPoints

\* generic_creep_fetch_from_provider_prio: the providers are sorted (stably)
\* by Reverse(points) and the first is returned
GenericCreepFetchFromProviderPrio(working) ==
    IF working = <<>> THEN <<>>
    ELSE LET Points(i) == PointsOr(GenericWorkingProvidersPoints(working[i]))
             first == CHOOSE i \in 1..Len(working) :
                         /\ \A j \in 1..Len(working) : Points(j) <= Points(i)
                         /\ \A j \in 1..(i - 1) : Points(j) < Points(i)
         IN  <<working[first]>>

\* generic_calc_energy_resource_provider over the providers in the order
\* in which the HashMap is iterated: Some of a provider or None
GenericCalcEnergyResourceProvider(provs, creep) ==
    LET Usable(prov) == CreepCanUse(prov, creep)
    IN  GenericCreepFetchFromProviderPrio(SelectSeq(provs, Usable))

\* the providers a room can have at once
MaxProviders == 3
RoomProviders ==
    {Provider("EnergyFarm", 0, 0, TRUE), Provider("EnergyFarm", 0, 2, FALSE),
     Provider("SourceDump", 550, 1, TRUE), Provider("SourceDump", 0, 0, TRUE),
     Provider("SourceDump", 99, 2, FALSE), Provider("LongTermStorage", 20000, 3, TRUE),
     Provider("Unknown", 100, 0, TRUE)}
ProviderLists == UNION {[1..n -> RoomProviders] : n \in 0..MaxProviders}

\* generic_calc_energy_resource_provider is applied to the providers of a
\* room and a creep
CallProvider ==
    /\ NoCall
    /\ \E provs \in ProviderLists : \E creep \in Bodies :
          /\ args' = [fn |-> "generic_calc_energy_resource_provider",
                       provs |-> provs, creep |-> creep]
          /\ ret' = GenericCalcEnergyResourceProvider(provs, creep)
    /\ UNCHANGED <<taskVars, found_sources, memory, time, ticksRun, errors, pc,
                   in_tick_unique_id, world, alive, spawning, citizens, room_states,
                   requests, handled_requests, run_returned, room_requests, updated,
                   room_state_updates, last_spawn, supplier_fillers, suppliers_to_fill,
                   free_capacity, carriers, intents>>

PointsNext ==
    \/ CallPoints
    \/ CallProvider
PointsSpec == CalcInit /\ [][PointsNext]_vars

\* ------------------------------------------------------------------ claims
\* the ids of the open list of a region, the names of its helpers
OpenIds(r) == SeqToSet(room_states[r].open_requests)
HelperNames(r) == {c.name : c \in SeqToSet(room_states[r].helping_citizens)}

\* the ticks under which an id is filed in the handled map
FiledUnderIn(handled, id) == {t \in DOMAIN handled : id \in DOMAIN handled[t]}
FiledUnder(id) == FiledUnderIn(handled_requests, id)

\* C1: every request id is in the open list of at most one region, and in
\* that list at most once.
C1_OpenIdsUnique ==
    \A r1, r2 \in Rooms :
    \A i \in 1..Len(room_states[r1].open_requests) :
    \A j \in 1..Len(room_states[r2].open_requests) :
        room_states[r1].open_requests[i] = room_states[r2].open_requests[j]
            => r1 = r2 /\ i = j

\* two regions with open requests, one of them with two
C1_Witness ==
    /\ Len(room_states["W1N1"].open_requests) >= 2
    /\ Len(room_states["W2N1"].open_requests) >= 1

\* C2: an id leaves the open list of a region only in that region's update
\* pass, and only in the tick under which the request is filed in the handled
\* map.
C2_RemovedOnlyWhenConfirmed ==
    [][\A r \in Rooms : \A id \in OpenIds(r) :
          id \notin OpenIds(r)' => pc = "update" /\ id \in DOMAIN HandledNow]_vars

\* C3: once the tick under which a request is filed in the handled map is
\* over, its id is in no open list, whichever ticks ended early.
C3_HandledIsClosed ==
    pc = "idle" =>
        \A r \in Rooms : \A id \in OpenIds(r) : \A t \in FiledUnder(id) : t > time

\* C4 as stated: an update pass that closes a request leaves the creep named
\* in it among the helpers of the region.
C4_ClosedHasHelper ==
    [][pc = "update" =>
          \A r \in Rooms : \A id \in OpenIds(r) :
              id \notin OpenIds(r)' =>
                  HandledNow[id].spawning_creep_name \in HelperNames(r)']_vars

\* C4, amended: an update pass that closes a request whose creep exists in
\* that tick appends the creep to the helpers of the region in the same pass.
C4_ClosedHasHelperIfFound ==
    [][pc = "update" =>
          \A r \in Rooms : \A id \in OpenIds(r) :
              (id \notin OpenIds(r)' /\ HandledNow[id].spawning_creep_name \in CreepNames)
                  => /\ HandledNow[id].spawning_creep_name \in HelperNames(r)'
                     /\ HandledNow[id].spawning_creep_name \notin HelperNames(r)]_vars

\* an update pass has closed a request of this tick and its creep is a helper
C4_Witness ==
    /\ pc = "finish"
    /\ \E r \in Rooms : \E id \in DOMAIN HandledNow :
          /\ HandledNow[id].target_room_name = r
          /\ id \notin OpenIds(r)
          /\ HandledNow[id].spawning_creep_name \in HelperNames(r)

\* C5: a spawn that succeeds in tick T takes the request out of the pending
\* map in T and files it under T + 1, not under T; and the id of a request
\* filed under a tick stays in its open list up to the update pass of that
\* tick.
C5_FiledForNextTick ==
    [][/\ pc = "assign" =>
             \A r \in Rooms :
                 last_spawn'[r].outcome = "ok" =>
                     /\ last_spawn'[r].id \in DOMAIN requests
                     /\ last_spawn'[r].id \notin DOMAIN requests'
                     /\ FiledUnderIn(handled_requests', last_spawn'[r].id) = {time + 1}
       /\ \A r \in Rooms : \A id \in OpenIds(r) : \A t \in FiledUnder(id) :
             (t > time \/ (t = time /\ pc \in {"read", "apply", "assign"}))
                 => id \in OpenIds(r)']_vars

\* in the tick after the spawn, before the update pass, the id is still open
C5_Witness ==
    /\ pc = "update"
    /\ \E r \in Rooms : \E id \in OpenIds(r) : id \in DOMAIN HandledNow

\* C6: a spawn attempt that is skipped or rejected leaves the request
\* pending and unchanged, files nothing, changes no open list and is no
\* error; a pending request leaves the pending map only when its spawn
\* succeeds, so that the assignment pass of every later tick iterates it.
C6_FailedAttemptChangesNothing ==
    [][/\ pc = "assign" =>
             /\ \A r \in Rooms :
                   last_spawn'[r].outcome \in {"skipped", "rejected"} =>
                       /\ last_spawn'[r].id \in DOMAIN requests'
                       /\ requests'[last_spawn'[r].id] = requests[last_spawn'[r].id]
                       /\ FiledUnderIn(handled_requests', last_spawn'[r].id) = {}
             /\ (\A r \in Rooms : last_spawn'[r].outcome # "ok") =>
                   UNCHANGED <<requests, handled_requests>>
             /\ UNCHANGED <<room_states, errors>>
             /\ pc' = "update"
       /\ \A id \in DOMAIN requests :
             id \notin DOMAIN requests' =>
                 /\ pc = "assign"
                 /\ \E r \in Rooms : last_spawn'[r] = [id |-> id, outcome |-> "ok"]]_vars

\* a request of an earlier tick is attempted again, and skipped or rejected
C6_Witness ==
    /\ pc = "update"
    /\ \E r \in Rooms :
          /\ last_spawn[r].outcome \in {"skipped", "rejected"}
          /\ last_spawn[r].id[1] < time
          /\ last_spawn[r].id \in DOMAIN requests

\* C7: every pending request has its id in the open list of exactly one
\* region.
C7_PendingIsOpen ==
    \A id \in DOMAIN requests : Cardinality({r \in Rooms : id \in OpenIds(r)}) = 1

\* C8: every request returned by the read pass of a region is added to the
\* pending map and logged in the open list of that region in the same tick.
C8_ReturnedIsAdded ==
    [][pc = "apply" =>
          \A r \in Rooms : \A i \in 1..Len(run_returned[r]) :
              /\ run_returned[r][i].request_id \in DOMAIN requests'
              /\ run_returned[r][i].request_id \in OpenIds(r)']_vars

C10_ReadPassFrame ==
    [][pc = "read" =>
          /\ UNCHANGED <<requests, handled_requests, room_states, citizens>>
          /\ \A r \in Rooms :
                \E ords \in SourceOrders : \E n \in 0..in_tick_unique_id' :
                    run_returned'[r] = RunRoom(r, ords[r], n)]_vars

\* a read pass has returned requests in a tick that began with requests
\* pending
C10_Witness ==
    /\ pc = "apply"
    /\ DOMAIN requests # {}
    /\ \E r \in Rooms : Len(run_returned[r]) > 0

\* the jobs asked for by a list of requests
JobsAsked(reqs) == {reqs[i].initial_job : i \in 1..Len(reqs)}

\* Scenario A: a Base region with one source, no creep anywhere, no open
\* request, and a target of one worker and one carrier
ScenarioA(r) ==
    /\ room_states[r].kind = "Base"
    /\ Len(room_states[r].sources) = 1
    /\ room_states[r].helping_citizens = <<>>
    /\ room_states[r].open_requests = <<>>
    /\ room_states[r].target_spawns.worker = 1
    /\ room_states[r].target_spawns.carrier = 1
    /\ citizens = {}
    /\ alive = {}

\* C11: a read pass over a region in Scenario A returns exactly two requests,
\* a FarmSource on the one source and a RoomLogistics; and the update pass of
\* the second tick, when spawns for the region were confirmed for that tick,
\* leaves no id of the first tick in the open list and leaves two helpers.
C11_ScenarioA ==
    [][\A r \in Rooms :
          /\ (pc = "read" /\ ScenarioA(r)) =>
                /\ Len(run_returned'[r]) = 2
                /\ JobsAsked(run_returned'[r]) =
                       {FarmSourceJob(room_states[r].sources[1]), RoomLogisticsJob}
          /\ (/\ pc = "update" /\ pc' = "finish"
              /\ time = 2 /\ ticksRun = 2 /\ errors = 0
              /\ room_states[r].kind = "Base"
              /\ Len(SourcesOf(r)) = 1
              /\ room_states[r].helping_citizens = <<>>
              /\ \E id \in OpenIds(r) : Closed(id)) =>
                /\ \A id \in OpenIds(r)' : id[1] # 1
                /\ Cardinality(HelperNames(r)') = 2]_vars


\* a do_job call has run a task
TaskWasRun == job_log # EmptyMap /\ job_log.before # NoTask

\* the object behind the task that was run no longer resolves: the
\* construction site, source, fetch container or delivery target, or the
\* resource provider of a task that gets its energy from one
BackingObjectVanished ==
    \/ ~job_log.object
    \/ job_log.before.kind \in {"Build", "UpgradeController"} /\ job_log.supply_gone

\* C12: the run of a task whose backing object has vanished never returns an
\* error: it returns one of Continue, Finish and CancelAndDoAnother
C12_VanishedObjectNeverErr ==
    (TaskWasRun /\ BackingObjectVanished) => job_log.ran \in TaskResults


\* Scenario B: a Build task was run, its construction site no longer resolves
\* and the creep is in the room of the site
ScenarioB ==
    /\ TaskWasRun
    /\ job_log.before.kind = "Build"
    /\ ~job_log.object
    /\ job_log.in_room

\* C13 as stated: in Scenario B run returns CancelAndDoAnother, whatever the
\* step of the task
C13_ScenarioBAnyStep == ScenarioB => job_log.ran = "CancelAndDoAnother"

\* C13: in Scenario B, run of a Build task that is in step Build and has
\* energy in store (precheck leaves the step alone) returns
\* CancelAndDoAnother, never Continue or Finish
C13_ScenarioB ==
    (ScenarioB /\ job_log.before.step = "Build" /\ job_log.energy # "empty")
        => job_log.ran = "CancelAndDoAnother"

C13_Witness ==
    /\ ScenarioB
    /\ job_log.before.step = "Build"
    /\ job_log.energy # "empty"
    /\ job_log.ran = "CancelAndDoAnother"
    /\ job_log.calls = 2


\* the task the citizen of the last do_job call holds after the call
TaskLeft == local_citizens[job_log.creep].task

\* what the last do_job call made of the result of run
ResultHandled ==
    /\ job_log.ran = "Continue" =>
          /\ TaskLeft # NoTask
          /\ TaskLeft.kind = job_log.before.kind
          /\ job_log.derived = 0
          /\ job_log.calls = 1
    /\ job_log.ran = "Finish" =>
          /\ TaskLeft = NoTask
          /\ job_log.derived = 0
          /\ job_log.calls = 1
    /\ job_log.ran = "CancelAndDoAnother" =>
          /\ job_log.derived = 1
          /\ job_log.calls = 2
    /\ job_log.derived <= 1
    /\ job_log.calls <= 2

\* C14: do_job keeps a task whose run returns Continue, and the next tick
\* starts from the tasks the last tick stored; on Finish it clears the task
\* and derives none, and none is derived before the do_job of the next tick;
\* on CancelAndDoAnother it clears the task and derives a task exactly once
\* more in the same call; no call derives more than once
C14_RunResultHandled ==
    [][/\ pc = "jobs" => ResultHandled'
       /\ (pc = "idle" /\ pc' = "jobs") => local_citizens' = citizen_tasks
       /\ pc = "assign" => /\ local_citizens' = local_citizens
                           /\ citizen_tasks' \in {local_citizens, citizen_tasks}]_vars

C14_Witness ==
    /\ TaskWasRun
    /\ job_log.ran = "CancelAndDoAnother"
    /\ job_log.derived = 1
    /\ TaskLeft # NoTask
    /\ pc = "idle"
    /\ citizen_tasks = local_citizens


\* C15: a do_job that fails, for a job its race does not handle or for any
\* other reason, skips its own citizen only: the loop goes on with the next
\* citizen, leaves the other citizens as they are, and after the last
\* citizen do_job has been invoked for every citizen and the tick is at the
\* assignment
C15_FailedJobSkipsOneAgent ==
    [][pc = "jobs" =>
          /\ job_queue' = Tail(job_queue)
          /\ jobs_ran' = MapInsert(jobs_ran, Head(job_queue), jobs_ran'[Head(job_queue)])
          /\ \A id \in DOMAIN local_citizens \ {Head(job_queue)} :
                local_citizens'[id] = local_citizens[id]
          /\ pc' = IF job_queue' = <<>> THEN "assign" ELSE "jobs"
          /\ pc' = "assign" => DOMAIN jobs_ran' = DOMAIN local_citizens]_vars

C15_Witness ==
    /\ pc = "assign"
    /\ \E id \in DOMAIN jobs_ran :
          /\ jobs_ran[id] = "Err"
          /\ local_citizens[id].job = MaintainStructuresJob
          /\ job_log.creep # id
          /\ job_log.ok
          /\ job_log.ran = "Continue"


\* C16: an error of the update pass in one region keeps neither the other
\* regions from being updated nor the citizens of the tick from being
\* stored
C16_RegionErrorIsolated ==
    [][(pc = "update" /\ errors' = errors + 1) =>
          /\ \E f \in Rooms : \A r \in Rooms \ {f} : room_states'[r] = UpdateOne(r).rs
          /\ citizens' = alive]_vars


Roles == {"Worker", "Carrier", "Farmer"}

\* the requests of a list that ask for a citizen of a role
RoleAsked(reqs, role) ==
    {i \in DOMAIN reqs : TargetSpawnKindFrom(reqs[i].initial_job) = role}

\* the helpers of region r that are known citizens of a role, and its open
\* requests for a citizen of that role
RoleHelpers(r, role) ==
    {i \in DOMAIN room_states[r].helping_citizens :
        /\ room_states[r].helping_citizens[i] \in citizens
        /\ TargetSpawnKindFrom(room_states[r].helping_citizens[i].job) = role}
RoleOpen(r, role) ==
    {i \in DOMAIN room_states[r].open_requests :
        /\ HasCurrentOrOldRequest(room_states[r].open_requests[i])
        /\ GetCurrentOrOldRequest(room_states[r].open_requests[i]).target_room_name = r
        /\ TargetSpawnKindFrom(
              GetCurrentOrOldRequest(room_states[r].open_requests[i]).initial_job) = role}
RoleHave(r, role) == Cardinality(RoleHelpers(r, role)) + Cardinality(RoleOpen(r, role))

RoleTarget(r, role) ==
    CASE role = "Worker" -> room_states[r].target_spawns.worker
      [] role = "Carrier" -> room_states[r].target_spawns.carrier
      [] OTHER -> room_states[r].target_spawns.farmer

\* the sources of region r that have a known farmer helper or an open
\* FarmSource request
SourcesHandled(r) ==
    {room_states[r].helping_citizens[i].job.target_source : i \in RoleHelpers(r, "Farmer")}
    \cup {GetCurrentOrOldRequest(room_states[r].open_requests[i]).initial_job.target_source :
             i \in {j \in DOMAIN room_states[r].open_requests :
                      /\ HasCurrentOrOldRequest(room_states[r].open_requests[j])
                      /\ GetCurrentOrOldRequest(
                            room_states[r].open_requests[j]).initial_job.kind = "FarmSource"}}

C18_WorkerAfterCarrierAndFarmer ==
    [][\A r \in Rooms :
          (/\ pc = "read"
           /\ room_states[r].kind = "Base"
           /\ RoleAsked(run_returned'[r], "Worker") # {}) =>
             /\ RoleHave(r, "Carrier") >= RoleTarget(r, "Carrier")
             /\ SeqToSet(room_states[r].sources) \ SourcesHandled(r) = {}]_vars


\* the resolve_panic requests of a list, in the order of the list
IsPanicRequest(q) == q.resolve_panic
PanicAsked(reqs) == SelectSeq(reqs, IsPanicRequest)

\* Scenario C: a SetupBase region whose panic counter is over the threshold
\* and that has neither a farmer nor a carrier among its helpers
ScenarioC(r) ==
    /\ room_states[r].kind = "SetupBase"
    /\ room_states[r].panic_countdown # PanicNone
    /\ room_states[r].panic_countdown > PANIC_THRESHOLD_TICKS
    /\ RoleHelpers(r, "Farmer") = {}
    /\ RoleHelpers(r, "Carrier") = {}

\* the open requests of region r that resolve a panic
OpenPanic(r) ==
    {i \in DOMAIN room_states[r].open_requests :
        /\ HasCurrentOrOldRequest(room_states[r].open_requests[i])
        /\ GetCurrentOrOldRequest(room_states[r].open_requests[i]).resolve_panic}

\* the jobs of the two requests of Scenario C
PanicPair(r) ==
    /\ Len(PanicAsked(run_returned'[r])) = 2
    /\ PanicAsked(run_returned'[r])[1].initial_job = FarmSourceJob(room_states[r].sources[1])
    /\ PanicAsked(run_returned'[r])[2].initial_job = RoomLogisticsJob
    /\ \A i \in 1..2 : PanicAsked(run_returned'[r])[i].target_room_name = r

\* C19 as stated: in Scenario C the read pass gets from
\* spawn_panicing_citizens one FarmSource and one RoomLogistics request that
\* resolve the panic
C19_ScenarioCAlways ==
    [][\A r \in Rooms : (pc = "read" /\ ScenarioC(r)) => PanicPair(r)]_vars

\* C19: in Scenario C, when the region sees its room with a source in it and
\* has no open request that resolves a panic, the read pass gets from
\* spawn_panicing_citizens one FarmSource request for the first source and
\* one RoomLogistics request, both resolving the panic; a region that knows
\* no source gets the RoomLogistics request alone
C19_ScenarioC ==
    [][\A r \in Rooms : (pc = "read" /\ ScenarioC(r) /\ OpenPanic(r) = {}) =>
          IF room_states[r].sources # <<>> THEN PanicPair(r)
          ELSE /\ Len(PanicAsked(run_returned'[r])) = 1
               /\ PanicAsked(run_returned'[r])[1].initial_job = RoomLogisticsJob]_vars

C19_Witness ==
    /\ pc = "apply"
    /\ \E r \in Rooms :
          /\ ScenarioC(r)
          /\ OpenPanic(r) = {}
          /\ room_states[r].sources # <<>>
          /\ Len(PanicAsked(run_returned[r])) = 2
          /\ PanicAsked(run_returned[r])[1].initial_job.kind = "FarmSource"
          /\ PanicAsked(run_returned[r])[2].initial_job.kind = "RoomLogistics"


\* a farmer and a carrier are among the helpers of region r that
\* state.citizens knows
PairExists(r) == RoleHelpers(r, "Farmer") # {} /\ RoleHelpers(r, "Carrier") # {}

\* the step leaves the helpers and the citizens alone: it is a status check
StatusChecked ==
    /\ citizens' = citizens
    /\ \A r \in Rooms : room_states'[r].helping_citizens = room_states[r].helping_citizens

\* C20: a status check clears the panic counter of a SetupBase region when a
\* farmer and a carrier are among its helpers; without the pair it sets a
\* cleared counter to 1 and adds one to a counter that is not over
\* PANIC_THRESHOLD_TICKS; nothing else moves the counter, so that the region
\* is panicing (counter over the threshold) only after more than
\* PANIC_THRESHOLD_TICKS status checks in a row without the pair
C20_PanicCountsAbsence ==
    [][\A r \in Rooms :
          /\ StatusChecked =>
                room_states'[r].panic_countdown =
                   IF PairExists(r) THEN PanicNone
                   ELSE IF room_states[r].panic_countdown = PanicNone THEN 1
                   ELSE IF room_states[r].panic_countdown <= PANIC_THRESHOLD_TICKS
                   THEN room_states[r].panic_countdown + 1
                   ELSE room_states[r].panic_countdown
          /\ ~StatusChecked => room_states'[r].panic_countdown = room_states[r].panic_countdown
          /\ Panicing(room_states'[r]) <=>
                room_states'[r].panic_countdown = PANIC_THRESHOLD_TICKS + 1]_vars

\* the remote room is panicing, so that more than PANIC_THRESHOLD_TICKS status
\* checks were made, and the home room, which had its pair meanwhile, counts
\* its first check without it
C20_Witness ==
    /\ Panicing(room_states["W2N1"])
    /\ room_states["W1N1"].panic_countdown = 1
    /\ ~PairExists("W1N1")
    /\ ~Panicing(room_states["W1N1"])


\* the update of region r has run in the step: the region is as update
\* leaves it, which the status check alone does not
UpdateRan(r) ==
    /\ room_states'[r] = UpdateOne(r).rs
    /\ room_states'[r] # CheckRoomStatus(room_states[r])
    /\ room_states'[r] # room_states[r]

\* C21: a Base region whose update finds it without a spawn is a SetupBase
\* region when the tick is over, and a Base region that has its spawn is not
\* replaced
C21_HelplessIsReplaced ==
    [][\A r \in Rooms :
          /\ (/\ pc = "update"
              /\ room_states[r].kind = "Base"
              /\ world[r] # "spawn"
              /\ UpdateRan(r)
              /\ pc' = "idle") => room_states'[r].kind = "SetupBase"
          /\ (/\ pc = "update"
              /\ room_states[r].kind = "Base"
              /\ pc' = "finish") => (r \in room_state_updates' <=> world[r] # "spawn")
          /\ (pc = "finish" /\ room_states[r].kind = "Base") =>
                room_states'[r].kind =
                   IF r \in room_state_updates THEN "SetupBase" ELSE "Base"]_vars


\* C22: no step of the tick loop makes a Base region of a SetupBase region
C22_SetupBaseStays ==
    [][\A r \in Rooms :
          room_states[r].kind = "SetupBase" => room_states'[r].kind = "SetupBase"]_vars

\* a region under setup whose room has shown a spawn during the whole tick is
\* still under setup when the tick has been updated
C22_Witness ==
    /\ pc = "finish"
    /\ \E r \in Rooms :
          /\ room_states[r].kind = "SetupBase"
          /\ world[r] = "spawn"
          /\ r \in updated
          /\ r \notin room_state_updates

\* C23: when the process is destroyed and reconstructed between two ticks,
\* every region state rebuilt from what was persisted has the target
\* populations, the open request ids, the helper identities and the panic
\* counter that it had at the end of the last tick (no tick ended on an
\* error, memory holds what the last tick persisted).
PersistedFields(rs) ==
    <<rs.target_spawns, SeqToSet(rs.open_requests),
      {c.name : c \in SeqToSet(rs.helping_citizens)}, rs.panic_countdown>>
C23_RestartKeepsRegionFields ==
    [][(Restart /\ errors = 0 /\ memory = [r \in Rooms |-> ToMemory(room_states[r])])
          => \A r \in Rooms : PersistedFields(room_states'[r]) = PersistedFields(room_states[r])]_vars

\* C24: at the start of a tick update_from_memory takes the target
\* populations of memory over as they are: applying it once more with the
\* same memory changes nothing, and neither the helper list nor the list of
\* open requests of the region is changed by it.
TickStarts == pc = "idle" /\ ticksRun' = ticksRun + 1
C24_UpdateFromMemoryOverwrites ==
    [][TickStarts =>
          \A r \in Rooms :
             /\ room_states'[r].target_spawns = memory[r].target_spawns
             /\ UpdateFromMemory(room_states'[r], memory[r]) = room_states'[r]
             /\ room_states'[r].helping_citizens = room_states[r].helping_citizens
             /\ room_states'[r].open_requests = room_states[r].open_requests]_vars
C24_Witness ==
    /\ pc = "read"
    /\ \E r \in Rooms :
          /\ room_states[r].target_spawns = memory[r].target_spawns
          /\ room_states[r].target_spawns # TargetSpawnsMem
          /\ room_states[r].helping_citizens # <<>>
          /\ room_states[r].open_requests # <<>>

\* C25: the assignment pass hands a request whose target room has a room
\* state to that room only, and a request whose target room has none to a
\* Base room only, one that no other Base room is closer to the target than
\* (by straight-line distance); when a Base room exists, a
\* BootstrapWorkerCitizen request whose target has no room state leaves
\* some Base room with a request in hand.
Assigned == args # <<>> /\ args.fn = "assign_requests"
BaseRooms == {r \in DOMAIN args.room_states : args.room_states[r] = "Base"}
Closest(h, target) ==
    /\ h \in BaseRooms
    /\ \A b \in BaseRooms : LinearLenExact(target, h) <= LinearLenExact(target, b)
ScoredDump ==
    /\ args # <<>> /\ args.fn = "generic_working_providers_points"
    /\ args.prov.kind = "SourceDump" /\ args.prov.found
Nearest(f, d) == CHOOSE k \in 0..f : 2 * d * k - d <= 2 * f /\ 2 * f < 2 * d * k + d
FillTerm(f) ==
    IF f = 0 THEN 0
    ELSE IF f < 100 THEN 0 - f
    ELSE IF f < 500 THEN 0 - Nearest(f, 5)
    ELSE Nearest(f, 100)
C26_SourceDumpScore ==
    ScoredDump =>
        ret = PointsSome((IF args.prov.amount = 0 THEN 0 ELSE 200)
                            + FillTerm(args.prov.amount) - 3 * args.prov.path)
C26_Witness ==
    /\ ScoredDump
    /\ args.prov.amount = 0 /\ args.prov.path = MaxPath
    /\ ret = PointsSome(0 - 3 * MaxPath)
\* C26 as it is stated: 200 + fill_term(f) - 3 * L for every fill level
C26_SourceDumpScoreFrom200 ==
    ScoredDump =>
        ret = PointsSome(200 + FillTerm(args.prov.amount) - 3 * args.prov.path)

\* C27: a LongTermStorage that holds less than the low-reserve threshold
\* (20000) has one and the same score, a positive one, whatever the length
\* of the path to it; from the threshold on its score is a function of the
\* length of the path alone.
ScoredStorage ==
    /\ args # <<>> /\ args.fn = "generic_working_providers_points"
    /\ args.prov.kind = "LongTermStorage" /\ args.prov.found
LOW_RESERVE == 20000
C27_StorageFloor ==
    ScoredStorage =>
        IF args.prov.amount < LOW_RESERVE
        THEN /\ ret.tag = "Some" /\ ret.points > 0
             /\ \A path \in 0..MaxPath :
                   ret = GenericWorkingProvidersPoints([args.prov EXCEPT !.path = path])
        ELSE \A amount \in {a \in Amounts : a >= LOW_RESERVE} :
                ret = GenericWorkingProvidersPoints([args.prov EXCEPT !.amount = amount])

\* C28: the selection returns a provider that the creep can use (an
\* EnergyFarm only with WORK parts, any other provider only with CARRY
\* parts) and that no usable provider outscores, a provider whose object
\* is gone counting with the score -10000; it returns none exactly when
\* the creep can use none of the providers.
Selected == args # <<>> /\ args.fn = "generic_calc_energy_resource_provider"
Gate(prov) ==
    \/ prov.kind = "EnergyFarm" /\ args.creep.work
    \/ prov.kind # "EnergyFarm" /\ args.creep.carry
Passing == {i \in 1..Len(args.provs) : Gate(args.provs[i])}
Score(prov) ==
    IF ~prov.found THEN 0 - 10000
    ELSE PointsOr(GenericWorkingProvidersPoints(prov))
C28_BestUsableProvider ==
    Selected =>
        IF Passing = {} THEN ret = <<>>
        ELSE /\ Len(ret) = 1
             /\ \E i \in Passing : ret[1] = args.provs[i]
             /\ \A j \in Passing : Score(args.provs[j]) <= Score(ret[1])
C28_Witness ==
    /\ Selected
    /\ args.creep.work /\ ~args.creep.carry
    /\ \E i, j, k \in 1..Len(args.provs) :
          /\ i < k
          /\ args.provs[i] = Provider("EnergyFarm", 0, 2, FALSE)
          /\ args.provs[j] = Provider("SourceDump", 550, 1, TRUE)
          /\ args.provs[k] = Provider("EnergyFarm", 0, 0, TRUE)
    /\ ret = <<Provider("EnergyFarm", 0, 0, TRUE)>>

\* C29: when run of a SpawnSuppliesRun task has returned Finish or
\* CancelAndDoAnother, the creep is not in the filler list of the room at
\* the moment the call returns.
C29_DoneFillerIsDelisted ==
    \A c \in DOMAIN job_log :
        ("ran" \in DOMAIN job_log[c] /\ "listed" \in DOMAIN job_log[c]
            /\ job_log[c].ran \in {"Finish", "CancelAndDoAnother"})
            => ~job_log[c].listed

\* the routes that fill_suppliers planned in the jobs of this tick, with
\* what the planning carrier had before it
Planners == {c \in DOMAIN job_log : job_log[c].planned # <<>>}
PlannedRoute(c) == job_log[c].planned[1]

\* the energy that the points of a route need
RECURSIVE NeededEnergy(_)
NeededEnergy(route) ==
    IF route = <<>> THEN 0
    ELSE free_capacity[Head(route)] + NeededEnergy(Tail(route))

\* the points of a route are pairwise distinct and were open
RouteOfDistinctOpenPoints(c) ==
    \E route \in {PlannedRoute(c)} :
        /\ \A i, j \in 1..Len(route) : route[i] = route[j] => i = j
        /\ SeqToSet(route) \subseteq job_log[c].open

\* no point of a route is held by the task of another listed filler
RouteApartFromOthers(c) ==
    SeqToSet(PlannedRoute(c)) \cap job_log[c].taken = {}

\* every point of a route is the nearest to the one before it among the
\* open points not taken yet
RouteIsGreedy(c) ==
    \E route \in {PlannedRoute(c)} :
        \A i \in 1..Len(route) :
            LET prev == IF i = 1 THEN job_log[c].pos ELSE route[i - 1]
                left == job_log[c].open \ {route[j] : j \in 1..(i - 1)}
            IN  \A q \in left : PathLen(prev, route[i]) <= PathLen(prev, q)

\* the planning went on until the energy was spent or nothing was left
RouteIsComplete(c) ==
    \E route \in {PlannedRoute(c)} :
        \/ NeededEnergy(route) >= job_log[c].energy
        \/ \A q \in job_log[c].open \ SeqToSet(route) : free_capacity[q] = 0

\* C30: the route that a SpawnSuppliesRun task plans consists of pairwise
\* distinct open points that no other listed filler has in its route, each
\* the nearest to the one taken before it, and the planning stops only when
\* the points taken use up the carried energy or no open point with free
\* capacity is left.
C30_PlannedRoute ==
    pc = "jobs" =>
        \A c \in Planners :
            /\ RouteOfDistinctOpenPoints(c)
            /\ RouteApartFromOthers(c)
            /\ RouteIsGreedy(c)
            /\ RouteIsComplete(c)


\* the step a Build task was in before the last do_job call and the step it
\* is in after it: the call ran the task and kept it, or made it (Task::new
\* starts in WaitForResource)
BuildStepped ==
    /\ pc \in {"jobs", "assign"}
    /\ job_log # EmptyMap
    /\ TaskLeft.kind = "Build"
    /\ \/ job_log.before.kind = "Build" /\ job_log.ran \in {"Continue", "Err"}
       \/ job_log.derived = 1
StepFrom == IF job_log.derived = 1 THEN "WaitForResource" ELSE job_log.before.step
StepTo == TaskLeft.step

\* a Build task enters GetEnergy only with a provider found and leaves Build
\* only with nothing carried, for GetEnergy if a provider is found and for
\* WaitForResource otherwise
BuildStepsCommon ==
    /\ (StepFrom # "GetEnergy" /\ StepTo = "GetEnergy") => job_log.see.provider = "Some"
    /\ (StepFrom = "Build" /\ StepTo # "Build") =>
          /\ job_log.energy = "empty"
          /\ StepTo = IF job_log.see.provider = "Some" THEN "GetEnergy"
                      ELSE "WaitForResource"

\* C31 as stated: the task moves from GetEnergy to Build only once the
\* carrying capacity of the creep is full
C31_BuildStepsFullOnly ==
    BuildStepped =>
        /\ BuildStepsCommon
        /\ (StepFrom = "GetEnergy" /\ StepTo = "Build") => job_log.energy = "full"

\* C31: a Build task enters GetEnergy only once a provider was found, moves
\* on to Build only once the carrying capacity of the creep is full or the
\* provider has given energy in that call (a withdraw, a pickup, a harvest
\* that the source could not serve), and leaves Build only when the creep
\* carries nothing, for GetEnergy if a provider is found and for
\* WaitForResource otherwise.
C31_BuildSteps ==
    BuildStepped =>
        /\ BuildStepsCommon
        /\ (StepFrom # "Build" /\ StepTo = "Build") =>
              \/ StepFrom = "GetEnergy" /\ job_log.energy = "full"
              \/ job_log.see.supply = "taken" /\ (StepFrom = "GetEnergy"
                                              \/ job_log.see.provider = "Some")

C31_Witness ==
    /\ BuildStepped
    /\ job_log.derived = 0
    /\ StepFrom = "GetEnergy"
    /\ StepTo = "Build"
    /\ job_log.energy = "some"
    /\ job_log.see.supply = "taken"


\* the last do_job call ran an UpgradeController task
UpgradeWasRun ==
    /\ pc \in {"jobs", "assign"}
    /\ TaskWasRun
    /\ job_log.before.kind = "UpgradeController"

\* C32: run of an UpgradeController task never returns Finish or
\* CancelAndDoAnother: a call that returns a result returns Continue, and the
\* creep keeps the task, in one of the steps WaitForResource, GetEnergy and
\* Upgrade.
C32_UpgradeNeverEnds ==
    UpgradeWasRun =>
        /\ job_log.ran \in {"Continue", "Err"}
        /\ job_log.calls = 1
        /\ TaskLeft.kind = "UpgradeController"
        /\ TaskLeft.step \in {"WaitForResource", "GetEnergy", "Upgrade"}

C32_Witness ==
    /\ UpgradeWasRun
    /\ job_log.ran = "Continue"
    /\ job_log.before.step = "Upgrade"
    /\ job_log.energy = "empty"
    /\ ~job_log.object
    /\ TaskLeft.step = "WaitForResource"


\* the last do_job call ran a FetchForConsumer task and run returned a result
FetchReturned ==
    /\ pc \in {"jobs", "assign"}
    /\ TaskWasRun
    /\ job_log.before.kind = "FetchForConsumer"
    /\ job_log.ran \in TaskResults

\* the task was delivering when run looked at its state: it was so before
\* the call, or the precheck took it there from Fetching
WasDelivering ==
    \/ job_log.before.step = "Delivering"
    \/ job_log.see.energy = "full"
    \/ job_log.see.enough

\* the run told the creep to transfer min(requested, carried) to the target
TransferIssued ==
    /\ WasDelivering
    /\ ~(job_log.before.step = "Delivering" /\ job_log.see.energy = "empty")
    /\ job_log.see.where = "near"
    /\ job_log.see.object

\* when run returns, the amount recorded as delivered is at least the
\* requested amount (above zero), or the creep carries nothing
DeliveredOrEmpty ==
    \/ TransferIssued /\ job_log.see.enough
    \/ job_log.see.energy = "empty"

\* C33 as stated: run returns Finish exactly when the amount delivered so far
\* is at least the requested amount or the creep carries nothing, and
\* Continue while neither holds
C33_FinishWhenDeliveredOrEmpty ==
    FetchReturned =>
        /\ job_log.ran = "Finish" <=> DeliveredOrEmpty
        /\ ~DeliveredOrEmpty => job_log.ran = "Continue"

\* C33: run of a FetchForConsumer task returns Finish exactly when the task
\* is delivering and the creep carries nothing at the start of the call or
\* the call has told the creep to transfer min(requested, carried) to the
\* target it stands next to; a task that is fetching never returns Finish,
\* whatever the creep carries; run returns CancelAndDoAnother only for a
\* dropped resource that is gone with no structure under it, and Continue
\* in every other case.
C33_FinishOnTransferOrEmpty ==
    FetchReturned =>
        /\ job_log.ran = "Finish" <=>
              \/ job_log.before.step = "Delivering" /\ job_log.see.energy = "empty"
              \/ TransferIssued
        /\ job_log.ran = "CancelAndDoAnother" <=>
              /\ ~WasDelivering
              /\ job_log.before.from = "Dropped"
              /\ job_log.see.where = "near"
              /\ ~job_log.see.object
              /\ ~job_log.see.under

C33_Witness ==
    /\ FetchReturned
    /\ job_log.before.step = "Delivering"
    /\ job_log.see.energy = "some"
    /\ ~job_log.see.enough
    /\ TransferIssued
    /\ job_log.ran = "Finish"


\* the requests that the open ids of a region stand for, as far as the
\* pending map or the handled map still has them
OpenKnown(r) ==
    {GetCurrentOrOldRequest(id) :
        id \in {x \in SeqToSet(room_states[r].open_requests) : HasCurrentOrOldRequest(x)}}

\* a source has a farmer among the helpers of region r that state.citizens
\* knows, or an open request for a farmer
SourceCovered(r, s) ==
    \/ \E c \in SeqToSet(room_states[r].helping_citizens) :
          c \in citizens /\ c.job = FarmSourceJob(s)
    \/ \E q \in OpenKnown(r) : q.initial_job = FarmSourceJob(s)

\* region r has an open request for a carrier
HasOpenCarrierRequest(r) ==
    \E q \in OpenKnown(r) : q.target_room_name = r /\ q.initial_job = RoomLogisticsJob

\* the read pass of region r has returned a request for job `job`
Emitted(r, job, panic) ==
    \E i \in 1..Len(run_returned[r]) :
        /\ run_returned[r][i].initial_job = job
        /\ run_returned[r][i].resolve_panic = panic

\* C34: the read pass of a SetupBase region returns a request for a worker
\* (BootstrapRoom) only when every known source has a farmer helper or an open
\* farmer request, the region has no open carrier request and nothing else
\* is returned in the pass; it returns a carrier request without panic only
\* when the pass returns no farmer request.
C34_SetupBaseAsksInOrder ==
    pc = "apply" =>
        \A r \in Rooms : room_states[r].kind = "SetupBase" =>
            /\ (\E p \in BOOLEAN : Emitted(r, BootstrapRoomJob, p)) =>
                  /\ \A s \in SeqToSet(room_states[r].sources) : SourceCovered(r, s)
                  /\ ~HasOpenCarrierRequest(r)
                  /\ Len(run_returned[r]) = 1
            /\ Emitted(r, RoomLogisticsJob, FALSE) =>
                  \A i \in 1..Len(run_returned[r]) :
                      run_returned[r][i].initial_job.kind # "FarmSource"

C34_Witness ==
    /\ pc = "apply"
    /\ \E r \in Rooms :
          /\ room_states[r].kind = "SetupBase"
          /\ room_states[r].sources # <<>>
          /\ Emitted(r, BootstrapRoomJob, FALSE)


\* the helpers of region r that live and pass F, and the open requests of
\* region r, raised for it, that pass G
LiveHelpers(r, F(_)) ==
    LET Live(c) == c \in alive /\ F(c)
    IN  CountIdx(room_states[r].helping_citizens, Live)
OpenAsked(r, G(_)) ==
    LET Known(id) == HasCurrentOrOldRequest(id)
        Asked(id) == GetCurrentOrOldRequest(id).target_room_name = r
                     /\ G(GetCurrentOrOldRequest(id).initial_job)
    IN  Len(SelectSeq(SelectSeq(room_states[r].open_requests, Known), Asked))

\* the workers, the carriers of region r and the farmers of source s: those
\* that live and those that are asked for
WorkersHadOrAsked(r) ==
    LET J(job) == job = BootstrapRoomJob
    IN  LiveHelpers(r, IsPlainWorker) + OpenAsked(r, J)
CarriersHadOrAsked(r) ==
    LET J(job) == job = RoomLogisticsJob
    IN  LiveHelpers(r, IsCarrier) + OpenAsked(r, J)
FarmersHadOrAsked(r, s) ==
    LET F(c) == c.job = FarmSourceJob(s)
        J(job) == job = FarmSourceJob(s)
    IN  LiveHelpers(r, F) + OpenAsked(r, J)

\* region r is not panicing and no request to resolve a panic of it is
\* pending or filed as handled
NeverPanicked(r) ==
    /\ ~(room_states[r].kind = "SetupBase" /\ Panicing(room_states[r]))
    /\ \A id \in DOMAIN requests \cup HandledIds :
          LET q == GetCurrentOrOldRequest(id)
          IN  ~(q.resolve_panic /\ q.target_room_name = r)

\* C35, for the regions that have not panicked (a panicing region asks for
\* its farmer and its carrier whatever it has asked for before): the live
\* workers among the helpers plus the open requests for a worker do not
\* exceed the worker target, the same holds for the carriers, and no source
\* has more than one farmer among the helpers and the open requests of the
\* region.
C35_NeverAsksTwiceUnlessPanicking ==
    \A r \in Rooms : NeverPanicked(r) =>
        /\ WorkersHadOrAsked(r) <= room_states[r].target_spawns.worker
        /\ CarriersHadOrAsked(r) <= room_states[r].target_spawns.carrier
        /\ \A s \in SeqToSet(SourcesOf(r)) : FarmersHadOrAsked(r, s) <= 1


\* the helpers of a list whose creeps still exist, in their order
Survivors(list) == LET Live(c) == c \in alive IN SelectSeq(list, Live)

\* the creeps that the update pass of region r can register in this tick:
\* those spawned for an open request of r that is filed as handled for it
Registrable(r) ==
    {c \in alive : \E id \in SeqToSet(room_states[r].open_requests) :
        Closed(id) /\ HandledNow[id].spawning_creep_name = c.name}

\* `after` is what an update pass of region r may leave of the helper list
\* `before`: the survivors in their order, then creeps it registered
PrunedAndJoined(r, before, after) ==
    \E n \in 0..Len(after) :
        /\ SubSeq(after, 1, n) = Survivors(before)
        /\ \A i \in (n + 1)..Len(after) : after[i] \in Registrable(r)

\* C36: the update pass of a region leaves as its helper list the helpers
\* listed before whose creeps still exist, in their order, followed by the
\* creeps registered in the pass, however many helpers have vanished in the
\* tick; the pass does not fail and removes no surviving helper.
C36_UpdateKeepsSurvivors ==
    [][pc = "update" =>
          /\ pc' # "panicked"
          /\ \A r \in Rooms :
                \/ room_states'[r].helping_citizens = room_states[r].helping_citizens
                \/ PrunedAndJoined(r, room_states[r].helping_citizens,
                                   room_states'[r].helping_citizens)]_vars


\* the worker holds a Build task from tick to tick
HoldsBuild == citizen_tasks[WorkerName].task.kind = "Build"

\* what the last do_job call found: the construction site is gone, the creep
\* is in the room of the site, calc_resource_provider returns Ok, energy
\* that is reached for is got at once, and a creep that is empty has no
\* provider to go to (one that has gets its fill from it)
SiteGoneInRoom ==
    job_log # EmptyMap =>
        /\ ~job_log.see.object
        /\ InRoom(job_log.see)
        /\ job_log.see.provider # "Err"
        /\ job_log.see.supply = "taken"
        /\ job_log.see.energy = "empty" => job_log.see.provider = "None"

\* the last do_job call ran a Build task that returned CancelAndDoAnother
BuildGivenUp ==
    /\ job_log # EmptyMap
    /\ job_log.before.kind = "Build"
    /\ job_log.ran = "CancelAndDoAnother"

\* C37: a Build task whose construction site is gone, with the room of the
\* site visible, returns CancelAndDoAnother after finitely many ticks,
\* whatever the creep carries and whether or not there is a provider of
\* energy: the creep does not keep the dead task for ever.
C37_DeadBuildIsGivenUp == []((HoldsBuild /\ []SiteGoneInRoom) => <>BuildGivenUp)


\* C38: a creep is on the list of the fillers of a Base room at most once at
\* any time, whatever SpawnSuppliesRun tasks have started, finished, been
\* cancelled and been derived again.
C38_FillerListedOnce ==
    \A i, j \in 1..Len(supplier_fillers) :
        supplier_fillers[i] = supplier_fillers[j] => i = j


\* no id is pending and filed as handled at once
PendingNotHandled == DOMAIN requests \cap HandledIds = {}

\* an id is filed under one tick of the handled map at most
HandledUnderOneTick ==
    \A t, u \in DOMAIN handled_requests :
        t # u => DOMAIN handled_requests[t] \cap DOMAIN handled_requests[u] = {}

\* the step is a request_handled for an id that is not pending
HandledUnasked ==
    /\ args'.fn = "request_handled"
    /\ args'.request.request_id \notin DOMAIN requests

\* C39: an id is never in the pending map and in the handled map at once,
\* it is filed under one tick key of the handled map at most, and a
\* request_handled for an id that is not pending leaves both maps as they
\* are.
C39_LedgerKeepsIdsApart ==
    /\ [](PendingNotHandled /\ HandledUnderOneTick)
    /\ [][HandledUnasked => UNCHANGED <<requests, handled_requests>>]_vars

\* request_handled was called for an id that had been filed under another
\* tick than the one this call would file it under, while a request is
\* pending and ids are filed under two ticks
C39_Witness ==
    /\ args # <<>>
    /\ args.fn = "request_handled"
    /\ args.request.request_id \in HandledIds
    /\ \/ time + args.delay \notin DOMAIN handled_requests
       \/ args.request.request_id \notin DOMAIN handled_requests[time + args.delay]
    /\ requests # EmptyMap
    /\ Cardinality(DOMAIN handled_requests) >= 2


\* the fulfillment of one tick files at most one request of each region
FilesOnePerRegion ==
    pc = "assign" =>
        \A r \in Rooms :
            Cardinality({id \in DOMAIN requests \ DOMAIN requests' :
                            requests[id].target_room_name = r}) <= 1

\* at most one open request of each region is filed under a tick
OneOpenPerTickKey ==
    \A r \in Rooms : \A t \in DOMAIN handled_requests :
        Cardinality(OpenIds(r) \cap DOMAIN handled_requests[t]) <= 1

\* an update pass closes at most one open request of a region
ClosesOnePerRegion ==
    pc = "update" =>
        \A r \in Rooms :
            Len(room_states[r].open_requests) - Len(room_states'[r].open_requests) <= 1

\* C40: the assignment hands each region at most one pending request in a
\* tick: at most one open request of a region is filed under any one tick
\* of the handled map, and an update pass closes at most one open id.
C40_OneRequestPerRegionAndTick ==
    /\ []OneOpenPerTickKey
    /\ [][FilesOnePerRegion /\ ClosesOnePerRegion]_vars

\* the update pass of a region has closed the request filed for this tick
\* and another request of the region is still open
C40_Witness ==
    \E r \in updated : \E id \in DOMAIN HandledNow :
        /\ HandledNow[id].target_room_name = r
        /\ Closed(id)
        /\ id \notin OpenIds(r)
        /\ OpenIds(r) # {}

====
